---- MODULE Spec2Model ----
(***************************************************************************)
(* Kube-Agent for Slack: the tool dispatch registry (agent/tools.ts), the  *)
(* agent orchestration loop (agent/agent.ts) and the command builder       *)
(* session handlers (slack/handlers.ts) over the cluster client            *)
(* (kubernetes/client.ts).                                                 *)
(*                                                                         *)
(* Strings are kept as strings when they are compared as a whole and as    *)
(* sequences of tokens when the code parses or concatenates them.          *)
(***************************************************************************)
EXTENDS Integers, Sequences, FiniteSets, TLC

\* ------------------------------------------------------------------------
\* Values shared by the three parts
\* ------------------------------------------------------------------------

\* JavaScript undefined, and a marker for a parameter an operation does not
\* have.
Undefined == "<undefined>"
NA == "<n/a>"

\* kubernetes/client.ts: the operations of the cluster capability surface.
READ_OPS ==
  {"getPods", "describePod", "getPodLogs", "getPreviousPodLogs", "getEvents",
   "getDeployments", "getPodMetrics", "getNamespaces", "getServices",
   "getConfigMaps", "describeConfigMap", "getIngresses", "getHPAs",
   "getReplicaSets", "getStatefulSets", "getDaemonSets", "getJobs",
   "getCronJobs", "getNodes", "getPVCs", "getEndpoints", "getSecrets",
   "getRolloutStatus", "getRolloutHistory"}

WRITE_OPS ==
  {"deletePod", "deleteDeployment", "deleteService", "deleteConfigMap",
   "deleteJob", "restartDeployment", "scaleDeployment"}

\* One invocation of a cluster operation with its scalar arguments.  name,
\* namespace and container are NA, and num is 0, for an operation that has
\* no such parameter; num is the tail length or the replica count.
Call(op, name, namespace, num, container) ==
  [op |-> op, name |-> name, namespace |-> namespace, num |-> num,
   container |-> container]

\* The operations named in a sequence of calls.
Ops(calls) == {calls[i].op : i \in DOMAIN calls}

\* What the API server does with a request: it fails, or it answers with an
\* empty or a non-empty body.
ApiOutcomes == {"fail", "empty", "data"}

\* The operations of kubernetes/client.ts pass an API failure on to their
\* caller, except getPreviousPodLogs and getPodMetrics, which catch it and
\* return a fixed text and an empty list.
K8sThrows(op, outcome) ==
  outcome = "fail" /\ op \notin {"getPreviousPodLogs", "getPodMetrics"}

\* ------------------------------------------------------------------------
\* agent/tools.ts
\* ------------------------------------------------------------------------

toolDefinitions ==
  <<"get_pods", "describe_pod", "get_pod_logs", "get_previous_pod_logs",
    "get_events", "get_deployments", "get_pod_metrics", "get_namespaces",
    "get_services", "get_configmaps", "describe_configmap", "get_ingresses",
    "get_hpas">>

RegisteredTools == {toolDefinitions[i] : i \in DOMAIN toolDefinitions}

\* The tokens of a JSON text: punctuation, string literals, number literals
\* and the literal null.
P(c) == [t |-> "p", s |-> c, n |-> 0]
Str(s) == [t |-> "str", s |-> s, n |-> 0]
Num(n) == [t |-> "num", s |-> "", n |-> n]
NullLit == [t |-> "null", s |-> "", n |-> 0]

\* A parsed JSON value: an object (a mapping from keys to literal tokens),
\* null, or a scalar.
JsonObject(obj) == [kind |-> "object", obj |-> obj]
JsonNull == [kind |-> "null", obj |-> <<>>]
JsonScalar == [kind |-> "scalar", obj |-> <<>>]
SyntaxError == [ok |-> FALSE, value |-> JsonNull]
Parsed(v) == [ok |-> TRUE, value |-> v]

\* The members of an object from position i on: key ":" literal, then ","
\* and more members, or "}" as the last token.
RECURSIVE ParseMembers(_, _, _)
ParseMembers(toks, i, acc) ==
  IF i + 3 > Len(toks) THEN SyntaxError
  ELSE IF toks[i].t # "str" \/ toks[i + 1] # P(":")
          \/ toks[i + 2].t \notin {"str", "num", "null"} THEN SyntaxError
  ELSE LET acc2 == [k \in DOMAIN acc \cup {toks[i].s} |->
                      IF k = toks[i].s THEN toks[i + 2] ELSE acc[k]] IN
       IF toks[i + 3] = P("}")
         THEN IF i + 3 = Len(toks) THEN Parsed(JsonObject(acc2)) ELSE SyntaxError
       ELSE IF toks[i + 3] = P(",") THEN ParseMembers(toks, i + 4, acc2)
       ELSE SyntaxError

\* JSON.parse on a token sequence.
JSONParse(toks) ==
  IF toks = <<>> THEN SyntaxError
  ELSE IF toks[1] = P("{") THEN
    IF Len(toks) = 2 /\ toks[2] = P("}") THEN Parsed(JsonObject(<<>>))
    ELSE ParseMembers(toks, 2, <<>>)
  ELSE IF Len(toks) = 1 /\ toks[1].t = "null" THEN Parsed(JsonNull)
  ELSE IF Len(toks) = 1 /\ toks[1].t \in {"str", "num"} THEN Parsed(JsonScalar)
  ELSE SyntaxError

\* args[key] read as a string; a property read on a scalar is undefined.
Arg(args, key) ==
  IF key \in DOMAIN args.obj /\ args.obj[key].t = "str"
  THEN args.obj[key].s ELSE Undefined

\* (args['tail_lines'] as number) || 100
TailLines(args) ==
  IF "tail_lines" \in DOMAIN args.obj /\ args.obj["tail_lines"].t = "num"
     /\ args.obj["tail_lines"].n # 0
  THEN args.obj["tail_lines"].n ELSE 100

\* The tools whose case reads a property of args: on a null args the read
\* raises a TypeError inside the try block.
ReadsArgs(name) == name \in {toolDefinitions[i] : i \in DOMAIN toolDefinitions} \ {"get_namespaces"}

\* The switch of executeTool: the cluster calls the case of `name` makes,
\* in order; the default case makes none.
ToolCalls(name, args) ==
  CASE name = "get_pods" ->
         <<Call("getPods", NA, Arg(args, "namespace"), 0, NA)>>
    [] name = "describe_pod" ->
         <<Call("describePod", Arg(args, "name"), Arg(args, "namespace"), 0, NA)>>
    [] name = "get_pod_logs" ->
         <<Call("getPodLogs", Arg(args, "name"), Arg(args, "namespace"),
                TailLines(args), Arg(args, "container"))>>
    [] name = "get_previous_pod_logs" ->
         <<Call("getPreviousPodLogs", Arg(args, "name"), Arg(args, "namespace"),
                TailLines(args), Arg(args, "container"))>>
    [] name = "get_events" ->
         <<Call("getEvents", NA, Arg(args, "namespace"), 0, NA)>>
    [] name = "get_deployments" ->
         <<Call("getDeployments", NA, Arg(args, "namespace"), 0, NA)>>
    [] name = "get_pod_metrics" ->
         <<Call("getPodMetrics", NA, Arg(args, "namespace"), 0, NA)>>
    [] name = "get_namespaces" ->
         <<Call("getNamespaces", NA, NA, 0, NA)>>
    [] name = "get_services" ->
         <<Call("getServices", NA, Arg(args, "namespace"), 0, NA)>>
    [] name = "get_configmaps" ->
         <<Call("getConfigMaps", NA, Arg(args, "namespace"), 0, NA)>>
    [] name = "describe_configmap" ->
         <<Call("describeConfigMap", Arg(args, "name"), Arg(args, "namespace"), 0, NA)>>
    [] name = "get_ingresses" ->
         <<Call("getIngresses", NA, Arg(args, "namespace"), 0, NA)>>
    [] name = "get_hpas" ->
         <<Call("getHPAs", NA, Arg(args, "namespace"), 0, NA)>>
    [] OTHER -> <<>>

\* The text a list tool returns for an empty list.
EmptyListText(name) ==
  CASE name = "get_pods" -> "No pods found"
    [] name = "get_events" -> "No recent events"
    [] name = "get_deployments" -> "No deployments found"
    [] name = "get_pod_metrics" ->
         "No metrics available (metrics-server may not be installed)"
    [] name = "get_namespaces" -> ""
    [] name = "get_services" -> "No services found"
    [] name = "get_configmaps" -> "No configmaps found"
    [] name = "get_ingresses" -> "No ingresses found"
    [] name = "get_hpas" -> "No HPAs found"
    [] name = "describe_pod" -> "describePod text"
    [] name = "describe_configmap" -> "describeConfigMap text"
    [] name = "get_pod_logs" -> "No logs available"
    [] name = "get_previous_pod_logs" -> "No previous logs available"
    [] OTHER -> ""

\* A variant of executeTool with a case that dispatches to a WRITE.
executeToolWithDelete(name, args, outcome) ==
  LET calls == IF name = "delete_pod" /\ args.kind # "null"
               THEN <<Call("deletePod", Arg(args, "name"), Arg(args, "namespace"), 0, NA)>>
               ELSE IF args.kind = "null" THEN <<>> ELSE ToolCalls(name, args) IN
  [calls |-> calls,
   payload |-> IF calls = <<>> THEN <<"Unknown tool: ", name>>
               ELSE <<"output of ", calls[1].op>>]

\* A variant of executeTool with a case that lists the secrets.
executeToolWithSecrets(name, args, outcome) ==
  LET calls == IF name = "get_secrets" /\ args.kind # "null"
               THEN <<Call("getSecrets", NA, Arg(args, "namespace"), 0, NA)>>
               ELSE IF args.kind = "null" THEN <<>> ELSE ToolCalls(name, args) IN
  [calls |-> calls,
   payload |-> IF calls = <<>> THEN <<"Unknown tool: ", name>>
               ELSE <<"output of ", calls[1].op>>]

\* A variant whose default case reports the unknown name as a failure of
\* the tool.
executeToolUnknownAsError(name, args, outcome) ==
  LET typeError == args.kind = "null" /\ ReadsArgs(name)
      calls == IF typeError THEN <<>> ELSE ToolCalls(name, args) IN
  [calls |-> calls,
   payload |->
     IF typeError THEN <<"Error executing ", name, ": ", "TypeError">>
     ELSE IF calls = <<>> THEN <<"Error executing ", name, ": ", "Unknown tool">>
     ELSE IF K8sThrows(calls[1].op, outcome)
       THEN <<"Error executing ", name, ": ", "api failure">>
     ELSE IF outcome = "fail"
       THEN IF calls[1].op = "getPodMetrics"
            THEN <<"No metrics available (metrics-server may not be installed)">>
            ELSE <<"No previous logs available (pod may not have crashed)">>
     ELSE IF outcome = "empty" THEN <<EmptyListText(name)>>
     ELSE <<"output of ", calls[1].op>>]

\* executeTool(name, args) when the API server answers with `outcome`: the
\* cluster calls made and the text payload returned.  The function has one
\* try/catch around the switch, so it never throws.
executeTool(name, args, outcome) ==
  LET typeError == args.kind = "null" /\ ReadsArgs(name)
      calls == IF typeError THEN <<>> ELSE ToolCalls(name, args) IN
  [calls |-> calls,
   payload |->
     IF typeError THEN <<"Error executing ", name, ": ", "TypeError">>
     ELSE IF calls = <<>> THEN <<"Unknown tool: ", name>>
     ELSE IF K8sThrows(calls[1].op, outcome)
       THEN <<"Error executing ", name, ": ", "api failure">>
     ELSE IF outcome = "fail"
       THEN IF calls[1].op = "getPodMetrics"
            THEN <<"No metrics available (metrics-server may not be installed)">>
            ELSE <<"No previous logs available (pod may not have crashed)">>
     ELSE IF outcome = "empty" THEN <<EmptyListText(name)>>
     ELSE <<"output of ", calls[1].op>>]

\* ------------------------------------------------------------------------
\* slack/handlers.ts: the pure parts of the command builder
\* ------------------------------------------------------------------------

\* A variant that does not count restart as a WRITE.
isWriteActionNoRestart(action) == action \in {"delete", "scale"}

\* isWriteAction
isWriteAction(action) == action \in {"delete", "restart", "scale"}

\* The ACTIONS table (ACTIONS is a reserved word of TLA+).
ActionTable ==
  <<[value |-> "get", write |-> FALSE],
    [value |-> "logs", write |-> FALSE],
    [value |-> "logs-previous", write |-> FALSE],
    [value |-> "describe", write |-> FALSE],
    [value |-> "top", write |-> FALSE],
    [value |-> "events", write |-> FALSE],
    [value |-> "rollout-status", write |-> FALSE],
    [value |-> "rollout-history", write |-> FALSE],
    [value |-> "delete", write |-> TRUE],
    [value |-> "restart", write |-> TRUE],
    [value |-> "scale", write |-> TRUE]>>

RESOURCE_TYPES ==
  <<"pods", "deployments", "services", "configmaps", "ingresses", "hpa",
    "secrets", "replicasets", "statefulsets", "daemonsets", "jobs", "cronjobs",
    "nodes", "pvc", "endpoints">>

\* The list operation of a resource type, used by the builder's resource
\* name selector and by the get action; "" for a type without one.
ListOp(resourceType) ==
  CASE resourceType = "pods" -> "getPods"
    [] resourceType = "deployments" -> "getDeployments"
    [] resourceType = "services" -> "getServices"
    [] resourceType = "configmaps" -> "getConfigMaps"
    [] resourceType = "ingresses" -> "getIngresses"
    [] resourceType = "hpa" -> "getHPAs"
    [] resourceType = "secrets" -> "getSecrets"
    [] resourceType = "replicasets" -> "getReplicaSets"
    [] resourceType = "statefulsets" -> "getStatefulSets"
    [] resourceType = "daemonsets" -> "getDaemonSets"
    [] resourceType = "jobs" -> "getJobs"
    [] resourceType = "cronjobs" -> "getCronJobs"
    [] resourceType = "nodes" -> "getNodes"
    [] resourceType = "pvc" -> "getPVCs"
    [] resourceType = "endpoints" -> "getEndpoints"
    [] OTHER -> ""

\* A list call for a type in a namespace; nodes are cluster-wide.
ListCall(resourceType, namespace) ==
  Call(ListOp(resourceType), NA, IF resourceType = "nodes" THEN NA ELSE namespace, 0, NA)

\* The cluster calls of buildCommandBuilderBlocks: the namespaces, and the
\* resources of the selected type when a namespace and a type are selected.
BuildCalls(selectedNamespace, selectedResourceType) ==
  <<Call("getNamespaces", NA, NA, 0, NA)>>
  \o (IF selectedNamespace # "" /\ selectedResourceType # ""
         /\ ListOp(selectedResourceType) # ""
      THEN <<ListCall(selectedResourceType, selectedNamespace)>> ELSE <<>>)

\* buildCommandBuilderBlocks: what the rendered message shows, given the
\* resource names the cluster returned.  The resource name selector is there
\* only when there are resources; the execute button carries the confirm
\* dialog, and the message the replica input, depending on the action.
buildCommandBuilderBlocks(selectedAction, selectedNamespace, selectedResourceType, selectedResourceName, fetched) ==
  LET resources == IF selectedNamespace # "" /\ selectedResourceType # ""
                   THEN fetched ELSE <<>>
      isWrite == IF selectedAction # "" THEN isWriteAction(selectedAction) ELSE FALSE IN
  [kind |-> "builder",
   action |-> selectedAction,
   namespace |-> selectedNamespace,
   resourceType |-> selectedResourceType,
   resourceName |-> IF resources # <<>> THEN selectedResourceName ELSE "",
   resources |-> resources,
   scaleInput |-> (selectedAction = "scale"),
   confirm |-> isWrite,
   style |-> IF isWrite THEN "danger" ELSE "primary",
   buttonValue |-> [action |-> selectedAction, namespace |-> selectedNamespace,
                    resourceType |-> selectedResourceType,
                    resourceName |-> selectedResourceName]]

\* The options of the resource name selector: at most OPTION_LIMIT of the
\* fetched names, each shown with its text cut to OPTION_TEXT_KEEP
\* characters and an ellipsis, and carrying as its value the name cut to
\* OPTION_VALUE_MAX characters, when the name is longer than OPTION_VALUE_MAX.
OPTION_LIMIT == 100
OPTION_VALUE_MAX == 75
OPTION_TEXT_KEEP == 72

OptionText(r) ==
  IF Len(r) > OPTION_VALUE_MAX THEN SubSeq(r, 1, OPTION_TEXT_KEEP) \o "..." ELSE r

OptionValue(r) ==
  IF Len(r) > OPTION_VALUE_MAX THEN SubSeq(r, 1, OPTION_VALUE_MAX) ELSE r

ResourceOptions(resources) ==
  [i \in 1..(IF Len(resources) > OPTION_LIMIT THEN OPTION_LIMIT ELSE Len(resources)) |->
     [text |-> OptionText(resources[i]), value |-> OptionValue(resources[i])]]

NoRender(kind) ==
  [kind |-> kind, action |-> "", namespace |-> "", resourceType |-> "",
   resourceName |-> "", resources |-> <<>>, scaleInput |-> FALSE,
   confirm |-> FALSE, style |-> "",
   buttonValue |-> [action |-> "", namespace |-> "", resourceType |-> "",
                    resourceName |-> ""]]

\* The switch of executeCommand: the cluster calls it makes.
executeCommandCalls(action, namespace, resourceType, resourceName) ==
  CASE action = "get" ->
         IF ListOp(resourceType) # "" THEN <<ListCall(resourceType, namespace)>> ELSE <<>>
    [] action = "logs" ->
         IF resourceName = "" THEN <<>>
         ELSE <<Call("getPodLogs", resourceName, namespace, 100, Undefined)>>
    [] action = "logs-previous" ->
         IF resourceName = "" THEN <<>>
         ELSE <<Call("getPreviousPodLogs", resourceName, namespace, 100, Undefined)>>
    [] action = "describe" ->
         IF resourceName = "" THEN <<>>
         ELSE IF resourceType = "pods"
           THEN <<Call("describePod", resourceName, namespace, 0, NA)>>
         ELSE IF resourceType = "configmaps"
           THEN <<Call("describeConfigMap", resourceName, namespace, 0, NA)>>
         ELSE <<>>
    [] action = "top" -> <<Call("getPodMetrics", NA, namespace, 0, NA)>>
    [] action = "events" -> <<Call("getEvents", NA, namespace, 0, NA)>>
    [] action = "rollout-status" ->
         IF resourceName = "" \/ resourceType # "deployments" THEN <<>>
         ELSE <<Call("getRolloutStatus", resourceName, namespace, 0, NA)>>
    [] action = "rollout-history" ->
         IF resourceName = "" \/ resourceType # "deployments" THEN <<>>
         ELSE <<Call("getRolloutHistory", resourceName, namespace, 0, NA)>>
    [] action = "delete" ->
         IF resourceName = "" THEN <<>>
         ELSE IF resourceType = "pods"
           THEN <<Call("deletePod", resourceName, namespace, 0, NA)>>
         ELSE IF resourceType = "deployments"
           THEN <<Call("deleteDeployment", resourceName, namespace, 0, NA)>>
         ELSE IF resourceType = "services"
           THEN <<Call("deleteService", resourceName, namespace, 0, NA)>>
         ELSE IF resourceType = "configmaps"
           THEN <<Call("deleteConfigMap", resourceName, namespace, 0, NA)>>
         ELSE IF resourceType = "jobs"
           THEN <<Call("deleteJob", resourceName, namespace, 0, NA)>>
         ELSE <<>>
    [] action = "restart" ->
         IF resourceName = "" \/ resourceType # "deployments" THEN <<>>
         ELSE <<Call("restartDeployment", resourceName, namespace, 0, NA)>>
    [] action = "scale" -> <<>>
    [] OTHER -> <<>>

\* The text executeCommand returns when it makes no cluster call.
executeCommandRejection(action, resourceType, resourceName) ==
  CASE action = "get" -> <<"Unsupported resource type: ", resourceType>>
    [] action = "logs" -> <<"Pod name required for logs">>
    [] action = "logs-previous" -> <<"Pod name required for previous logs">>
    [] action = "describe" ->
         IF resourceName = "" THEN <<"Resource name required">>
         ELSE <<"Describe not supported for: ", resourceType>>
    [] action = "rollout-status" ->
         IF resourceName = "" THEN <<"Deployment name required">>
         ELSE <<"Rollout status only works with deployments">>
    [] action = "rollout-history" ->
         IF resourceName = "" THEN <<"Deployment name required">>
         ELSE <<"Rollout history only works with deployments">>
    [] action = "delete" ->
         IF resourceName = "" THEN <<"Resource name required for delete">>
         ELSE <<"Delete not supported for: ", resourceType>>
    [] action = "restart" ->
         IF resourceName = "" THEN <<"Deployment name required for restart">>
         ELSE <<"Restart only works with deployments">>
    [] action = "scale" ->
         IF resourceName = "" THEN <<"Deployment name required for scale">>
         ELSE IF resourceType # "deployments" THEN <<"Scale only works with deployments">>
         ELSE <<"Scale requires replicas parameter - use the number input">>
    [] OTHER -> <<"Unsupported action: ", action>>

\* A variant that passes a default instead of the submitted replica count.
executeCommandWithScaleCallsDefault(action, namespace, resourceType, resourceName, replicas) ==
  IF action = "scale" /\ resourceType = "deployments"
  THEN <<Call("scaleDeployment", resourceName, namespace, 1, NA)>>
  ELSE <<>>

\* executeCommandWithScale: the cluster calls it makes.
executeCommandWithScaleCalls(action, namespace, resourceType, resourceName, replicas) ==
  IF action = "scale" /\ resourceType = "deployments"
  THEN <<Call("scaleDeployment", resourceName, namespace, replicas, NA)>>
  ELSE <<>>

\* The text either function returns once its cluster call has settled: the
\* operation's output, or the caught error.
CommandResult(call, outcome) ==
  IF K8sThrows(call.op, outcome) THEN <<"Error: ", "api failure">>
  ELSE <<"output of ", call.op>>

\* Number.parseInt(text, 10) on a sequence of characters: an optional sign,
\* then the longest run of digits; NaN when there is no digit.
Digits == <<"0", "1", "2", "3", "4", "5", "6", "7", "8", "9">>
IsDigit(c) == \E d \in DOMAIN Digits : Digits[d] = c
DigitValue(c) == (CHOOSE d \in DOMAIN Digits : Digits[d] = c) - 1

RECURSIVE DigitRun(_, _, _)
DigitRun(chars, i, acc) ==
  IF i > Len(chars) \/ ~IsDigit(chars[i]) THEN acc
  ELSE DigitRun(chars, i + 1, 10 * acc + DigitValue(chars[i]))

parseInt(chars) ==
  LET negative == chars # <<>> /\ chars[1] = "-"
      start == IF chars # <<>> /\ chars[1] \in {"-", "+"} THEN 2 ELSE 1 IN
  IF start > Len(chars) \/ ~IsDigit(chars[start]) THEN [nan |-> TRUE, n |-> 0]
  ELSE [nan |-> FALSE,
        n |-> IF negative THEN 0 - DigitRun(chars, start, 0)
              ELSE DigitRun(chars, start, 0)]

\* ------------------------------------------------------------------------
\* State
\* ------------------------------------------------------------------------

VARIABLES
  tool,         \* one invocation of executeTool: its input and its result
  thread,       \* the messages of the thread a question was asked in
  messages,     \* analyzeQuestion: the working conversation
  toolsUsed,    \* analyzeQuestion: tool names, one per settled tool call
  iterations,   \* analyzeQuestion: the loop counter
  agentPc,      \* analyzeQuestion: where the run is
  batch,        \* the tool calls of the response being processed
  pending,      \* indices of batch whose executeTool has not settled yet
  toolResults,  \* the tool messages of the settled calls, by index
  modelCalls,   \* number of calls made to the model backend
  sent,         \* the conversation passed to the latest model call
  opsInvoked,   \* cluster operations invoked on behalf of the run
  agentOut,     \* what the run gave its caller
  commandBuilderState,  \* handlers.ts: the session map, by `channel:ts` key
  visible,      \* what the builder message of the anchor shows
  inflight,     \* the handlers that have started and not finished
  effect,       \* what the latest handler step did to the cluster and the thread
  nEvents       \* number of interactions the user has made

agentVars ==
  <<messages, toolsUsed, iterations, agentPc, batch, pending, toolResults,
    modelCalls, sent, opsInvoked, agentOut>>

builderVars == <<commandBuilderState, visible, inflight, effect, nEvents>>

vars == <<tool, thread, agentVars, builderVars>>

\* ------------------------------------------------------------------------
\* Inputs
\* ------------------------------------------------------------------------

Obj(members) == <<P("{")>> \o members \o <<P("}")>>
Member(k, v) == <<Str(k), P(":"), v>>

\* Argument texts the model backend sends: the empty text, objects, the
\* literal null and a truncated object.
ArgsEmptyText == <<>>
ArgsEmptyObject == Obj(<<>>)
ArgsProd == Obj(Member("namespace", Str("prod")))
ArgsDown == Obj(Member("namespace", Str("down")))
ArgsPod == Obj(Member("name", Str("api")) \o <<P(",")>> \o Member("namespace", Str("prod")))
ArgsPodTail ==
  Obj(Member("name", Str("api")) \o <<P(",")>> \o Member("namespace", Str("prod"))
      \o <<P(",")>> \o Member("tail_lines", Num(50))
      \o <<P(",")>> \o Member("container", Str("web")))
ArgsPodTailZero ==
  Obj(Member("name", Str("api")) \o <<P(",")>> \o Member("namespace", Str("prod"))
      \o <<P(",")>> \o Member("tail_lines", Num(0)))
ArgsNull == <<NullLit>>
ArgsTruncated == <<P("{"), Str("namespace"), P(":")>>

ArgTexts ==
  {ArgsEmptyText, ArgsEmptyObject, ArgsProd, ArgsDown, ArgsPod, ArgsPodTail,
   ArgsPodTailZero, ArgsNull, ArgsTruncated}

\* Names the model backend can put in a tool call: the registered ones and
\* names of operations that are not registered.
UnregisteredNames == {"delete_pod", "restart_deployment", "scale_deployment", "get_secrets"}
RequestableNames == RegisteredTools \cup UnregisteredNames

\* toolCall.function.arguments || '{}'
ArgumentsOrDefault(toks) == IF toks = <<>> THEN Obj(<<>>) ELSE toks

\* The anchor the events of the model are for: its key in the session map.
Key == "C1:ts1"

\* Another builder message of the same channel, and the session its user
\* has selected so far.
OtherKey == "C1:ts2"
OtherSession ==
  [action |-> "scale", namespace |-> "prod", resourceType |-> "deployments",
   resourceName |-> "api-7f9"]

MaxInFlight == 2
MaxEvents == 5
MaxReplicaLen == 2

\* A session record as the handlers create it.
EmptySession == [action |-> "", namespace |-> "", resourceType |-> "", resourceName |-> ""]

\* body.state.values.scale_replicas_block.cmd_scale_replicas of an execute
\* event: absent when the pressed message has no replica input, else the
\* input's state, with or without a value property; the value is the text
\* in the input, empty when nothing was entered.
NoReplicaInput == [present |-> FALSE, hasValue |-> FALSE, value |-> <<>>]
ReplicaInput(hasValue, value) == [present |-> TRUE, hasValue |-> hasValue, value |-> value]

ReplicaChars == {"3", "-", "a"}
ReplicaTexts == UNION {[1..n -> ReplicaChars] : n \in 0..MaxReplicaLen}
ReplicaStates ==
  {ReplicaInput(FALSE, <<>>)} \cup {ReplicaInput(TRUE, v) : v \in ReplicaTexts}

\* What the user leaves in the replica input in the concurrent model:
\* nothing, or a count.
UserReplicaStates == {ReplicaInput(TRUE, <<>>), ReplicaInput(TRUE, <<"3">>)}

NoCall == Call("", NA, NA, 0, NA)

\* A message posted in the thread of the anchor.
Post(kind, write, command, text) ==
  [kind |-> kind, write |-> write, command |-> command, text |-> text]
NoPost == Post("none", FALSE, <<>>, <<>>)
WARN_SELECT == <<"Please select at least an action, namespace, and resource type.">>
WARN_REPLICAS == <<"Please enter the number of replicas for scale operation.">>

\* The effect of a handler step: the cluster calls it issued, the message it
\* posted, the handler it belongs to and whether the button press that
\* started the handler went through the confirm dialog.
Effect(by, calls, post, confirmed) ==
  [by |-> by, calls |-> calls, post |-> post, confirmed |-> confirmed]
Quiet == Effect("", <<>>, NoPost, FALSE)

\* A handler in flight.  phase is where it is suspended; kind is the
\* action_id (or app_mention); value is the selected option; confirm,
\* replicas and shown are what the pressed message carried: the confirm
\* dialog of its execute button, the state of its replica input and the
\* selections it displayed; args are the arguments of the pending re-render;
\* call, write and command belong to a command being executed and outcome
\* is how its cluster call settled; delivery tells the deliveries of one
\* event apart.
Handler(phase, kind, value, confirm, replicas, shown, args, call, write, command, outcome, delivery) ==
  [phase |-> phase, kind |-> kind, value |-> value, confirm |-> confirm,
   replicas |-> replicas, shown |-> shown, args |-> args, call |-> call,
   write |-> write, command |-> command, outcome |-> outcome,
   delivery |-> delivery]
Free ==
  Handler("free", "", "", FALSE, NoReplicaInput, EmptySession, EmptySession,
          NoCall, FALSE, <<>>, "", 1)

SelectionKinds == {"cmd_action", "cmd_namespace", "cmd_resource_type", "cmd_resource_name"}

\* What the user picks from in this model.
UserActions == {"get", "delete", "scale"}
UserNamespaces == {"prod"}
UserResourceTypes == {"pods", "deployments"}

\* What the cluster returns for a list of resource names.
ClusterLists == {<<>>, <<"api-7f9">>}

BuilderIdle ==
  /\ commandBuilderState = [k \in {} |-> EmptySession]
  /\ visible = NoRender("none")
  /\ inflight = {}
  /\ effect = Quiet
  /\ nEvents = 0

\* ------------------------------------------------------------------------
\* executeTool on its own: every requestable name, every argument object,
\* every answer of the API server
\* ------------------------------------------------------------------------

ToolInputs ==
  {[pc |-> "ready", name |-> n, args |-> JSONParse(ArgumentsOrDefault(t)).value,
    outcome |-> o, calls |-> <<>>, payload |-> <<>>] :
     n \in RequestableNames,
     t \in {x \in ArgTexts : JSONParse(ArgumentsOrDefault(x)).ok},
     o \in ApiOutcomes}

AgentOff ==
  /\ messages = <<>>
  /\ toolsUsed = <<>>
  /\ iterations = 0
  /\ agentPc = "off"
  /\ batch = <<>>
  /\ pending = {}
  /\ toolResults = <<>>
  /\ modelCalls = 0
  /\ sent = <<>>
  /\ opsInvoked = {}
  /\ agentOut = [kind |-> "none", answer |-> <<>>, toolsUsed |-> <<>>]

AgentIdle == thread = <<>> /\ AgentOff

ToolIdle ==
  tool = [pc |-> "off", name |-> "", args |-> JsonNull, outcome |-> "data",
          calls |-> <<>>, payload |-> <<>>]

InitTool ==
  /\ tool \in ToolInputs
  /\ AgentIdle
  /\ BuilderIdle

InvokeTool ==
  /\ tool.pc = "ready"
  /\ LET r == executeTool(tool.name, tool.args, tool.outcome) IN
       tool' = [tool EXCEPT !.pc = "done", !.calls = r.calls, !.payload = r.payload]
  /\ UNCHANGED <<thread, agentVars, builderVars>>

NextTool == InvokeTool

SpecTool == InitTool /\ [][NextTool]_vars

\* ------------------------------------------------------------------------
\* executeTool twice on the same cluster state, with the clock moving on
\* between the two invocations.  Times are in whole seconds.
\* ------------------------------------------------------------------------

MaxTicks == 3

\* getAge: the age of an object created at `created`, read at `now`.
getAge(known, created, now) ==
  LET seconds == now - created IN
  IF ~known THEN <<"unknown">>
  ELSE IF seconds < 60 THEN <<ToString(seconds), "s">>
  ELSE IF seconds < 3600 THEN <<ToString(seconds \div 60), "m">>
  ELSE IF seconds < 86400 THEN <<ToString(seconds \div 3600), "h">>
  ELSE <<ToString(seconds \div 86400), "d">>

\* The pods the API server lists: one with a creation timestamp, or one
\* without.
ClusterPods ==
  {<<[name |-> "api-7f9", namespace |-> "prod", known |-> TRUE, created |-> 0]>>,
   <<[name |-> "api-7f9", namespace |-> "prod", known |-> FALSE, created |-> 0]>>}

\* The lines get_pods makes of the listed pods.
PodRows(pods, now) ==
  [i \in DOMAIN pods |->
     <<pods[i].namespace, "/", pods[i].name, " | Status: ", "Running",
       " | Restarts: ", "0", " | Age: ">>
     \o getAge(pods[i].known, pods[i].created, now)]

\* The payload of executeTool at the time `now`: the lines of get_pods carry
\* the age of each pod; no other tool reads the clock.
executeToolAt(name, args, outcome, pods, now) ==
  LET r == executeTool(name, args, outcome) IN
  IF name = "get_pods" /\ r.calls # <<>> /\ outcome = "data"
  THEN <<PodRows(pods, now)>>
  ELSE r.payload

\* The clock readings at the first invocation: just below a minute, an
\* hour and a day after the pod was created.
StartTimes == {5, 58, 3598, 86398}

TwiceInputs ==
  {[pc |-> "ready", name |-> n, args |-> JSONParse(ArgumentsOrDefault(t)).value,
    outcome |-> o, calls |-> <<>>, payload |-> <<>>, pods |-> pods, now |-> t0,
    ticks |-> 0, first |-> <<>>] :
     n \in RequestableNames,
     t \in {x \in ArgTexts : JSONParse(ArgumentsOrDefault(x)).ok},
     o \in ApiOutcomes, pods \in ClusterPods, t0 \in StartTimes}

InitTwice ==
  /\ tool \in TwiceInputs
  /\ AgentIdle
  /\ BuilderIdle

InvokeFirst ==
  /\ tool.pc = "ready"
  /\ tool' = [tool EXCEPT !.pc = "once",
                          !.calls = executeTool(tool.name, tool.args, tool.outcome).calls,
                          !.first = executeToolAt(tool.name, tool.args, tool.outcome,
                                                  tool.pods, tool.now)]
  /\ UNCHANGED <<thread, agentVars, builderVars>>

\* A second passes; the cluster stays as it is.
TimePasses ==
  /\ tool.pc = "once"
  /\ tool.ticks < MaxTicks
  /\ tool' = [tool EXCEPT !.now = tool.now + 1, !.ticks = tool.ticks + 1]
  /\ UNCHANGED <<thread, agentVars, builderVars>>

InvokeSecond ==
  /\ tool.pc = "once"
  /\ tool' = [tool EXCEPT !.pc = "done",
                          !.payload = executeToolAt(tool.name, tool.args, tool.outcome,
                                                    tool.pods, tool.now)]
  /\ UNCHANGED <<thread, agentVars, builderVars>>

NextTwice == InvokeFirst \/ TimePasses \/ InvokeSecond

SpecTwice == InitTwice /\ [][NextTwice]_vars

\* ------------------------------------------------------------------------
\* agent/agent.ts
\* ------------------------------------------------------------------------

MAX_ITERATIONS == 10

SYSTEM_PROMPT == <<"SYSTEM_PROMPT">>
FALLBACK_ANSWER == <<"I was unable to analyze this issue.">>
LIMIT_ANSWER == <<"I've gathered a lot of information but reached my analysis limit.">>

\* One entry of the working conversation.
Message(role, content, tool_calls, tool_call_id) ==
  [role |-> role, content |-> content, tool_calls |-> tool_calls,
   tool_call_id |-> tool_call_id]

ToolCall(id, name, arguments) == [id |-> id, name |-> name, arguments |-> arguments]

\* What the model backend can answer: no message at all, a text (empty or
\* not) without tool calls, or tool calls.
NoMessage == [message |-> FALSE, content |-> <<>>, tool_calls |-> <<>>]
TextResponse(text) == [message |-> TRUE, content |-> text, tool_calls |-> <<>>]
CallsResponse(calls) == [message |-> TRUE, content |-> <<>>, tool_calls |-> calls]

BatchUnknown == <<ToolCall("c1", "restart_deployment", ArgsPod)>>
BatchSameTool ==
  <<ToolCall("c1", "get_pods", ArgsProd), ToolCall("c2", "get_pods", ArgsDown),
    ToolCall("c3", "get_pods", ArgsNull)>>
BatchMalformed == <<ToolCall("c1", "describe_pod", ArgsPod), ToolCall("c2", "get_pods", ArgsTruncated)>>

Responses ==
  {NoMessage, TextResponse(<<>>), TextResponse(<<"answer">>),
   CallsResponse(BatchUnknown), CallsResponse(BatchSameTool),
   CallsResponse(BatchMalformed)}

Histories ==
  {<<>>, <<[role |-> "user", content |-> <<"earlier question">>],
           [role |-> "assistant", content |-> <<"earlier answer">>]>>}

\* The cluster the run talks to: requests for the namespace "down" fail,
\* every other request is answered with data.
ClusterAnswer(call) == IF call.namespace = "down" THEN "fail" ELSE "data"

\* A variant that returns the names as they were pushed.
DedupeKeepsAll(seq) == seq

\* [...new Set(toolsUsed)]: the first occurrence of every name, in order.
RECURSIVE Dedupe(_)
Dedupe(seq) ==
  IF seq = <<>> THEN <<>>
  ELSE LET front == Dedupe(SubSeq(seq, 1, Len(seq) - 1))
           last == seq[Len(seq)] IN
       IF \E i \in DOMAIN front : front[i] = last THEN front ELSE Append(front, last)

\* The calls of a batch whose arguments JSON.parse accepts.
Parses(call) == JSONParse(ArgumentsOrDefault(call.arguments)).ok
ParsedArgs(call) == JSONParse(ArgumentsOrDefault(call.arguments)).value

\* The cluster calls executeTool makes for one tool call of a response.  They
\* are issued when the call is dispatched; the answer decides only the text.
DispatchCalls(call) ==
  executeTool(call.name, ParsedArgs(call), "data").calls

\* The text executeTool resolves to for one tool call, against the cluster.
ResultText(call) ==
  LET calls == DispatchCalls(call)
      outcome == IF calls = <<>> THEN "data" ELSE ClusterAnswer(calls[1]) IN
  executeTool(call.name, ParsedArgs(call), outcome).payload

\* messages as analyzeQuestion builds it before the loop.
InitAgent ==
  /\ ToolIdle
  /\ BuilderIdle
  /\ thread = <<>>
  /\ \E history \in Histories :
       messages = <<Message("system", SYSTEM_PROMPT, <<>>, "")>>
                  \o [i \in DOMAIN history |->
                        Message(history[i].role, history[i].content, <<>>, "")]
                  \o <<Message("user", <<"question">>, <<>>, "")>>
  /\ toolsUsed = <<>>
  /\ iterations = 0
  /\ agentPc = "loop"
  /\ batch = <<>>
  /\ pending = {}
  /\ toolResults = <<>>
  /\ modelCalls = 0
  /\ sent = <<>>
  /\ opsInvoked = {}
  /\ agentOut = [kind |-> "none", answer |-> <<>>, toolsUsed |-> <<>>]

\* The loop test.
LoopContinuesOffByOne == iterations <= MAX_ITERATIONS

LoopContinues == iterations < MAX_ITERATIONS

\* A variant that sends the conversation without the system instruction.
CallModelNoSystem ==
  /\ agentPc = "loop"
  /\ LoopContinues
  /\ iterations' = iterations + 1
  /\ modelCalls' = modelCalls + 1
  /\ sent' = Tail(messages)
  /\ agentPc' = "model"
  /\ UNCHANGED <<tool, thread, builderVars, messages, toolsUsed, batch, pending, toolResults,
                 opsInvoked, agentOut>>

\* while (iterations < MAX_ITERATIONS) { iterations++; create(...) }
CallModel ==
  /\ agentPc = "loop"
  /\ LoopContinues
  /\ iterations' = iterations + 1
  /\ modelCalls' = modelCalls + 1
  /\ sent' = messages
  /\ agentPc' = "model"
  /\ UNCHANGED <<tool, thread, builderVars, messages, toolsUsed, batch, pending, toolResults,
                 opsInvoked, agentOut>>

\* The return after the loop.
ReturnLimit ==
  /\ agentPc = "loop"
  /\ ~LoopContinues
  /\ agentOut' = [kind |-> "returned", answer |-> LIMIT_ANSWER,
                  toolsUsed |-> Dedupe(toolsUsed)]
  /\ agentPc' = "done"
  /\ UNCHANGED <<tool, thread, builderVars, messages, toolsUsed, iterations, batch, pending,
                 toolResults, modelCalls, sent, opsInvoked>>

\* A variant that ignores the text of the response.
FinalAnswerAlwaysFallback(content) == FALLBACK_ANSWER

\* The answer returned for a response without tool calls:
\* message.content || 'I was unable to analyze this issue.'
FinalAnswer(content) == IF content # <<>> THEN content ELSE FALLBACK_ANSWER

\* A variant that answers a response without message with the fallback
\* text.
ModelRespondsFallback(r) ==
  /\ agentPc = "model"
  /\ IF ~r.message THEN
       /\ agentOut' = [kind |-> "returned", answer |-> FALLBACK_ANSWER,
                       toolsUsed |-> Dedupe(toolsUsed)]
       /\ agentPc' = "done"
       /\ UNCHANGED <<messages, batch, pending, toolResults, opsInvoked>>
     ELSE
       /\ messages' = Append(messages, Message("assistant", r.content, r.tool_calls, ""))
       /\ IF r.tool_calls = <<>> THEN
            /\ agentOut' = [kind |-> "returned", answer |-> FinalAnswer(r.content),
                            toolsUsed |-> Dedupe(toolsUsed)]
            /\ agentPc' = "done"
            /\ UNCHANGED <<batch, pending, toolResults, opsInvoked>>
          ELSE
            LET ok == {i \in DOMAIN r.tool_calls : Parses(r.tool_calls[i])} IN
            /\ batch' = r.tool_calls
            /\ pending' = ok
            /\ toolResults' = <<>>
            /\ opsInvoked' = opsInvoked \cup
                 UNION {Ops(DispatchCalls(r.tool_calls[i])) : i \in ok}
            /\ IF ok = DOMAIN r.tool_calls
                 THEN agentPc' = "tools" /\ UNCHANGED agentOut
                 ELSE /\ agentPc' = "done"
                      /\ agentOut' = [kind |-> "threw", answer |-> <<"SyntaxError">>,
                                      toolsUsed |-> <<>>]
  /\ UNCHANGED <<tool, thread, builderVars, toolsUsed, iterations, modelCalls, sent>>

\* The backend answers the pending create() and the loop body runs up to
\* its next await: the throw for a missing message, the return for a
\* response without tool calls, or the dispatch of every tool call.  A call
\* whose arguments do not parse rejects its promise, Promise.all rejects and
\* the run fails, with the calls dispatched before and after it in flight.
ModelResponds(r) ==
  /\ agentPc = "model"
  /\ IF ~r.message THEN
       /\ agentOut' = [kind |-> "threw", answer |-> <<"No response from OpenAI">>,
                       toolsUsed |-> <<>>]
       /\ agentPc' = "done"
       /\ UNCHANGED <<messages, batch, pending, toolResults, opsInvoked>>
     ELSE
       /\ messages' = Append(messages, Message("assistant", r.content, r.tool_calls, ""))
       /\ IF r.tool_calls = <<>> THEN
            /\ agentOut' = [kind |-> "returned", answer |-> FinalAnswer(r.content),
                            toolsUsed |-> Dedupe(toolsUsed)]
            /\ agentPc' = "done"
            /\ UNCHANGED <<batch, pending, toolResults, opsInvoked>>
          ELSE
            LET ok == {i \in DOMAIN r.tool_calls : Parses(r.tool_calls[i])} IN
            /\ batch' = r.tool_calls
            /\ pending' = ok
            /\ toolResults' = <<>>
            /\ opsInvoked' = opsInvoked \cup
                 UNION {Ops(DispatchCalls(r.tool_calls[i])) : i \in ok}
            /\ IF ok = DOMAIN r.tool_calls
                 THEN agentPc' = "tools" /\ UNCHANGED agentOut
                 ELSE /\ agentPc' = "done"
                      /\ agentOut' = [kind |-> "threw", answer |-> <<"SyntaxError">>,
                                      toolsUsed |-> <<>>]
  /\ UNCHANGED <<tool, thread, builderVars, toolsUsed, iterations, modelCalls, sent>>

\* The executeTool of tool call i settles: its callback records the name and
\* resolves to the tool message.  When it is the last one of the batch,
\* Promise.all resolves and the results are pushed in the order of the
\* requests.  The callbacks of a run that has already failed still run.
ToolSettles(i) ==
  /\ i \in pending
  /\ toolsUsed' = Append(toolsUsed, batch[i].name)
  /\ pending' = pending \ {i}
  /\ toolResults' = [k \in DOMAIN toolResults \cup {i} |->
                       IF k = i THEN Message("tool", ResultText(batch[i]), <<>>, batch[i].id)
                       ELSE toolResults[k]]
  /\ IF agentPc = "tools" /\ pending' = {}
       THEN /\ messages' = messages \o [k \in 1..Len(batch) |-> toolResults'[k]]
            /\ agentPc' = "loop"
       ELSE UNCHANGED <<messages, agentPc>>
  /\ UNCHANGED <<tool, thread, builderVars, iterations, batch, modelCalls, sent, opsInvoked, agentOut>>

NextAgent ==
  \/ CallModel
  \/ ReturnLimit
  \/ \E r \in Responses : ModelResponds(r)
  \/ \E i \in DOMAIN batch : ToolSettles(i)

SpecAgent == InitAgent /\ [][NextAgent]_vars

\* ------------------------------------------------------------------------
\* slack/handlers.ts: the handlers of the command builder
\* ------------------------------------------------------------------------

EmptyMap == [k \in {} |-> EmptySession]

\* A variant whose default record has the action get preselected.
GetOrDefaultGet ==
  IF Key \in DOMAIN commandBuilderState THEN commandBuilderState[Key]
  ELSE [EmptySession EXCEPT !.action = "get"]

\* commandBuilderState.get(stateKey) || { action: '', ... }
GetOrDefault == IF Key \in DOMAIN commandBuilderState THEN commandBuilderState[Key] ELSE EmptySession

\* A variant of the store that keeps the record of this anchor only.
MapSetAlone(state) == [k \in {Key} |-> state]

\* commandBuilderState.set(stateKey, state)
MapSet(state) ==
  [k \in DOMAIN commandBuilderState \cup {Key} |->
     IF k = Key THEN state ELSE commandBuilderState[k]]

\* commandBuilderState.delete(stateKey)
MapDelete == [k \in DOMAIN commandBuilderState \ {Key} |-> commandBuilderState[k]]

\* Handlers start, move on to their next await and finish.
CanStart == Cardinality(inflight) < MaxInFlight
Start(h) == inflight' = inflight \cup {h}
Move(h, h2) == inflight' = (inflight \ {h}) \cup {h2}
Finish(h) == inflight' = inflight \ {h}

\* The selections a message displays.
Shown == visible.buttonValue

\* app_mention with the text "command": the builder is rendered without any
\* selection and posted; the handler then waits for the post to return.
Mention ==
  /\ visible.kind = "none"
  /\ CanStart
  /\ visible' = buildCommandBuilderBlocks("", "", "", "", <<>>)
  /\ effect' = Effect("app_mention", BuildCalls("", ""), NoPost, FALSE)
  /\ Start([Free EXCEPT !.phase = "store", !.kind = "app_mention"])
  /\ UNCHANGED <<commandBuilderState, nEvents>>

\* ... and stores the initial session under the key of the posted message.
MentionStore(h) ==
  /\ h.phase = "store"
  /\ commandBuilderState' = MapSet(EmptySession)
  /\ effect' = Quiet
  /\ Finish(h)
  /\ UNCHANGED <<visible, nEvents>>

\* The user picks an option of one of the selectors of the visible message.
\* The resource name selector offers the option values made from the names
\* the render fetched.
UserSelects(kind, value) ==
  /\ visible.kind = "builder"
  /\ nEvents < MaxEvents
  /\ CanStart
  /\ kind \in SelectionKinds
  /\ value \in CASE kind = "cmd_action" -> UserActions
                 [] kind = "cmd_namespace" -> UserNamespaces
                 [] kind = "cmd_resource_type" -> UserResourceTypes
                 [] kind = "cmd_resource_name" ->
                      {ResourceOptions(visible.resources)[i].value :
                         i \in DOMAIN ResourceOptions(visible.resources)}
  /\ Start([Free EXCEPT !.phase = "event", !.kind = kind, !.value = value])
  /\ nEvents' = nEvents + 1
  /\ effect' = Quiet
  /\ UNCHANGED <<commandBuilderState, visible>>

\* The user presses the execute button of the visible message.  When the
\* button carries the confirm dialog the event is sent only once the user
\* has accepted it.  The event carries the state of the replica input, if
\* the message has one.
UserExecutes(replicas) ==
  /\ visible.kind = "builder"
  /\ nEvents < MaxEvents
  /\ CanStart
  /\ replicas \in (IF visible.scaleInput THEN UserReplicaStates ELSE {NoReplicaInput})
  /\ Start([Free EXCEPT !.phase = "event", !.kind = "cmd_execute",
                        !.confirm = visible.confirm, !.replicas = replicas,
                        !.shown = Shown])
  /\ nEvents' = nEvents + 1
  /\ effect' = Quiet
  /\ UNCHANGED <<commandBuilderState, visible>>

\* The user presses the cancel button of the visible message.
UserCancels ==
  /\ visible.kind = "builder"
  /\ nEvents < MaxEvents
  /\ CanStart
  /\ Start([Free EXCEPT !.phase = "event", !.kind = "cmd_cancel"])
  /\ nEvents' = nEvents + 1
  /\ effect' = Quiet
  /\ UNCHANGED <<commandBuilderState, visible>>

\* A variant in which a namespace event keeps the resource name.
ApplySelectionKeepsName(state, kind, value) ==
  CASE kind = "cmd_action" -> [state EXCEPT !.action = value]
    [] kind = "cmd_namespace" -> [state EXCEPT !.namespace = value]
    [] kind = "cmd_resource_type" ->
         [state EXCEPT !.resourceType = value, !.resourceName = ""]
    [] kind = "cmd_resource_name" -> [state EXCEPT !.resourceName = value]

\* The assignments of the four selection handlers to the session record.
ApplySelection(state, kind, value) ==
  CASE kind = "cmd_action" -> [state EXCEPT !.action = value]
    [] kind = "cmd_namespace" ->
         [state EXCEPT !.namespace = value, !.resourceName = ""]
    [] kind = "cmd_resource_type" ->
         [state EXCEPT !.resourceType = value, !.resourceName = ""]
    [] kind = "cmd_resource_name" -> [state EXCEPT !.resourceName = value]

\* cmd_action, cmd_namespace, cmd_resource_type, cmd_resource_name up to
\* the await of buildCommandBuilderBlocks: the record is fetched or created,
\* assigned and stored, and the arguments of the re-render are taken from it.
SelectHandle(h) ==
  /\ h.phase = "event"
  /\ h.kind \in SelectionKinds
  /\ LET state == ApplySelection(GetOrDefault, h.kind, h.value) IN
       /\ commandBuilderState' = MapSet(state)
       /\ Move(h, [h EXCEPT !.phase = "build", !.args = state])
  /\ effect' = Quiet
  /\ UNCHANGED <<visible, nEvents>>

\* The rest of a selection handler: the blocks are built from the captured
\* arguments and from what the cluster lists now, and chat.update replaces
\* the message of the anchor.
RerenderFrom(h, lists) ==
  /\ h.phase = "build"
  /\ \E fetched \in lists :
       visible' = buildCommandBuilderBlocks(
                    h.args.action, h.args.namespace,
                    h.args.resourceType, h.args.resourceName,
                    fetched)
  /\ effect' = Effect(h.kind,
                      BuildCalls(h.args.namespace, h.args.resourceType),
                      NoPost, FALSE)
  /\ Finish(h)
  /\ UNCHANGED <<commandBuilderState, nEvents>>

Rerender(h) == RerenderFrom(h, ClusterLists)

\* A variant of the validation that accepts a session without resource type.
IncompleteIgnoresType(has, state) ==
  ~has \/ state.action = "" \/ state.namespace = ""

\* !state || !state.action || !state.namespace || !state.resourceType
Incomplete(has, state) ==
  ~has \/ state.action = "" \/ state.namespace = "" \/ state.resourceType = ""

\* scaleReplicas of cmd_execute for a scale session: undefined unless the
\* submitted state has the input with a value property, else
\* Number.parseInt(messageState.value || '0', 10).
ScaleReplicas(replicas) ==
  IF replicas.present /\ replicas.hasValue
  THEN [undefined |-> FALSE, parsed |-> parseInt(IF replicas.value = <<>> THEN <<"0">> ELSE replicas.value)]
  ELSE [undefined |-> TRUE, parsed |-> [nan |-> TRUE, n |-> 0]]

\* scaleReplicas === undefined || Number.isNaN(scaleReplicas)
ReplicasMissing(r) == r.undefined \/ r.parsed.nan

\* The command string shown with the result.
CommandStr(state, n) ==
  IF state.action = "restart"
    THEN <<"kubectl rollout restart deployment ", state.resourceName, " -n ", state.namespace>>
  ELSE IF state.action = "scale"
    THEN <<"kubectl scale deployment ", state.resourceName, " --replicas=", ToString(n),
           " -n ", state.namespace>>
  ELSE <<"kubectl ", state.action, " ", state.resourceType>>
       \o (IF state.resourceName # "" THEN <<" ", state.resourceName>> ELSE <<>>)
       \o <<" -n ", state.namespace>>

\* A variant of cmd_execute that refuses an event while an execute of the
\* anchor is under way.
ExecHandleGuarded(h) ==
  LET has == Key \in DOMAIN commandBuilderState
      state == GetOrDefault
      r == ScaleReplicas(h.replicas)
      calls == IF state.action = "scale"
               THEN executeCommandWithScaleCalls(state.action, state.namespace,
                      state.resourceType, state.resourceName, r.parsed.n)
               ELSE executeCommandCalls(state.action, state.namespace,
                      state.resourceType, state.resourceName)
      rejection == IF state.action = "scale" THEN <<"Invalid scale operation">>
                   ELSE executeCommandRejection(state.action, state.resourceType,
                                                state.resourceName)
      command == CommandStr(state, r.parsed.n)
      underWay == \E g \in inflight : g.kind = "cmd_execute" /\ g.phase \in {"cluster", "post"} IN
  /\ h.phase = "event"
  /\ h.kind = "cmd_execute"
  /\ IF Incomplete(has, state) \/ underWay THEN
       /\ effect' = Effect(h.kind, <<>>, Post("warning", FALSE, <<>>, WARN_SELECT), h.confirm)
       /\ Finish(h)
     ELSE IF state.action = "scale" /\ ReplicasMissing(r) THEN
       /\ effect' = Effect(h.kind, <<>>, Post("warning", FALSE, <<>>, WARN_REPLICAS), h.confirm)
       /\ Finish(h)
     ELSE IF calls = <<>> THEN
       /\ effect' = Effect(h.kind, <<>>,
                           Post("result", isWriteAction(state.action), command, rejection),
                           h.confirm)
       /\ Move(h, [h EXCEPT !.phase = "post"])
     ELSE
       /\ effect' = Effect(h.kind, calls, NoPost, h.confirm)
       /\ Move(h, [h EXCEPT !.phase = "cluster", !.call = calls[1],
                             !.write = isWriteAction(state.action),
                             !.command = command])
  /\ UNCHANGED <<commandBuilderState, visible, nEvents>>

\* cmd_execute up to its first await.  An incomplete session, or a scale
\* session without a usable replica count, posts a warning and returns.
\* Otherwise the command is dispatched: either its cluster call is issued
\* and awaited, or the rejection text is the result and is posted at once.
ExecHandle(h) ==
  LET has == Key \in DOMAIN commandBuilderState
      state == GetOrDefault
      r == ScaleReplicas(h.replicas)
      calls == IF state.action = "scale"
               THEN executeCommandWithScaleCalls(state.action, state.namespace,
                      state.resourceType, state.resourceName, r.parsed.n)
               ELSE executeCommandCalls(state.action, state.namespace,
                      state.resourceType, state.resourceName)
      rejection == IF state.action = "scale" THEN <<"Invalid scale operation">>
                   ELSE executeCommandRejection(state.action, state.resourceType,
                                                state.resourceName)
      command == CommandStr(state, r.parsed.n) IN
  /\ h.phase = "event"
  /\ h.kind = "cmd_execute"
  /\ IF Incomplete(has, state) THEN
       /\ effect' = Effect(h.kind, <<>>, Post("warning", FALSE, <<>>, WARN_SELECT), h.confirm)
       /\ Finish(h)
     ELSE IF state.action = "scale" /\ ReplicasMissing(r) THEN
       /\ effect' = Effect(h.kind, <<>>, Post("warning", FALSE, <<>>, WARN_REPLICAS), h.confirm)
       /\ Finish(h)
     ELSE IF calls = <<>> THEN
       /\ effect' = Effect(h.kind, <<>>,
                           Post("result", isWriteAction(state.action), command, rejection),
                           h.confirm)
       /\ Move(h, [h EXCEPT !.phase = "post"])
     ELSE
       /\ effect' = Effect(h.kind, calls, NoPost, h.confirm)
       /\ Move(h, [h EXCEPT !.phase = "cluster", !.call = calls[1],
                             !.write = isWriteAction(state.action),
                             !.command = command])
  /\ UNCHANGED <<commandBuilderState, visible, nEvents>>

\* The cluster call of an execute settles, with a result or an error that
\* executeCommand catches, and the result message is posted.
ExecSettles(h) ==
  /\ h.phase = "cluster"
  /\ \E outcome \in {"data", "fail"} :
       /\ effect' = Effect(h.kind, <<>>,
                           Post("result", h.write, h.command,
                                CommandResult(h.call, outcome)),
                           h.confirm)
       /\ Move(h, [h EXCEPT !.phase = "post", !.outcome = outcome])
  /\ UNCHANGED <<commandBuilderState, visible, nEvents>>

\* A variant of the clean-up that leaves the session record in the map.
ExecCleanupKeepsRecord(h) ==
  /\ h.phase = "post"
  /\ effect' = Quiet
  /\ Finish(h)
  /\ UNCHANGED <<commandBuilderState, visible, nEvents>>

\* The post of the result returns and the execute handler cleans up.
ExecCleanup(h) ==
  /\ h.phase = "post"
  /\ commandBuilderState' = MapDelete
  /\ effect' = Quiet
  /\ Finish(h)
  /\ UNCHANGED <<visible, nEvents>>

\* A variant of cmd_cancel that only closes the message.
CancelHandleKeepsRecord(h) ==
  /\ h.phase = "event"
  /\ h.kind = "cmd_cancel"
  /\ Move(h, [h EXCEPT !.phase = "close"])
  /\ effect' = Quiet
  /\ UNCHANGED <<commandBuilderState, visible, nEvents>>

\* cmd_cancel up to its await: the record is deleted and the update of the
\* message is sent.
CancelHandle(h) ==
  /\ h.phase = "event"
  /\ h.kind = "cmd_cancel"
  /\ commandBuilderState' = MapDelete
  /\ Move(h, [h EXCEPT !.phase = "close"])
  /\ effect' = Quiet
  /\ UNCHANGED <<visible, nEvents>>

\* The update of the cancel handler replaces the message.
CancelUpdate(h) ==
  /\ h.phase = "close"
  /\ visible' = NoRender("closed")
  /\ effect' = Effect(h.kind, <<>>, NoPost, FALSE)
  /\ Finish(h)
  /\ UNCHANGED <<commandBuilderState, nEvents>>

InitBuilder ==
  /\ ToolIdle
  /\ AgentIdle
  /\ commandBuilderState = EmptyMap
  /\ visible = NoRender("none")
  /\ inflight = {}
  /\ effect = Quiet
  /\ nEvents = 0

NextBuilder ==
  \/ (Mention /\ UNCHANGED <<tool, thread, agentVars>>)
  \/ (\E kind \in SelectionKinds, value \in UserActions \cup UserNamespaces
         \cup UserResourceTypes \cup UNION {{l[i] : i \in DOMAIN l} : l \in ClusterLists} :
        UserSelects(kind, value) /\ UNCHANGED <<tool, thread, agentVars>>)
  \/ (\E replicas \in UserReplicaStates \cup {NoReplicaInput} :
        UserExecutes(replicas) /\ UNCHANGED <<tool, thread, agentVars>>)
  \/ (UserCancels /\ UNCHANGED <<tool, thread, agentVars>>)
  \/ (\E h \in inflight : MentionStore(h) /\ UNCHANGED <<tool, thread, agentVars>>)
  \/ (\E h \in inflight : SelectHandle(h) /\ UNCHANGED <<tool, thread, agentVars>>)
  \/ (\E h \in inflight : Rerender(h) /\ UNCHANGED <<tool, thread, agentVars>>)
  \/ (\E h \in inflight : ExecHandle(h) /\ UNCHANGED <<tool, thread, agentVars>>)
  \/ (\E h \in inflight : ExecSettles(h) /\ UNCHANGED <<tool, thread, agentVars>>)
  \/ (\E h \in inflight : ExecCleanup(h) /\ UNCHANGED <<tool, thread, agentVars>>)
  \/ (\E h \in inflight : CancelHandle(h) /\ UNCHANGED <<tool, thread, agentVars>>)
  \/ (\E h \in inflight : CancelUpdate(h) /\ UNCHANGED <<tool, thread, agentVars>>)

SpecBuilder == InitBuilder /\ [][NextBuilder]_vars

\* ------------------------------------------------------------------------
\* The execute handler on its own: every session record the selection
\* handlers can leave behind, none at all included, and every execute event
\* the platform can deliver for it.  The event may stem from a message that
\* no longer matches the record, so its confirm flag and replica state are
\* independent of the record.
\* ------------------------------------------------------------------------

ActionValues == {ActionTable[i].value : i \in DOMAIN ActionTable}
ResourceTypeValues == {RESOURCE_TYPES[i] : i \in DOMAIN RESOURCE_TYPES}

Sessions ==
  [action : ActionValues \cup {""}, namespace : UserNamespaces \cup {""},
   resourceType : ResourceTypeValues \cup {""}, resourceName : {"", "api-7f9"}]

ExecuteEvents ==
  {[Free EXCEPT !.phase = "event", !.kind = "cmd_execute", !.confirm = c,
                !.replicas = r] :
     c \in BOOLEAN, r \in ReplicaStates \cup {NoReplicaInput}}

InitExecute ==
  /\ ToolIdle
  /\ AgentIdle
  /\ commandBuilderState \in {EmptyMap} \cup {[k \in {Key} |-> state] : state \in Sessions}
  /\ visible = buildCommandBuilderBlocks(GetOrDefault.action, GetOrDefault.namespace,
                 GetOrDefault.resourceType, GetOrDefault.resourceName, <<"api-7f9">>)
  /\ \E e \in ExecuteEvents : inflight = {e}
  /\ effect = Quiet
  /\ nEvents = 1

NextExecute ==
  \/ (\E h \in inflight : ExecHandle(h) /\ UNCHANGED <<tool, thread, agentVars>>)
  \/ (\E h \in inflight : ExecSettles(h) /\ UNCHANGED <<tool, thread, agentVars>>)
  \/ (\E h \in inflight : ExecCleanup(h) /\ UNCHANGED <<tool, thread, agentVars>>)

SpecExecute == InitExecute /\ [][NextExecute]_vars

\* ------------------------------------------------------------------------
\* The execute event delivered twice: the session of the anchor is complete
\* and names a WRITE action, the user has accepted the confirm dialog, and
\* two handlers have started for the two deliveries of the event.
\* ------------------------------------------------------------------------

WriteSessions ==
  {state \in Sessions : isWriteAction(state.action) /\ ~Incomplete(TRUE, state)}

InitReplay ==
  /\ ToolIdle
  /\ AgentIdle
  /\ commandBuilderState \in {[k \in {Key} |-> state] : state \in WriteSessions}
  /\ visible = buildCommandBuilderBlocks(GetOrDefault.action, GetOrDefault.namespace,
                 GetOrDefault.resourceType, GetOrDefault.resourceName, <<"api-7f9">>)
  /\ \E e \in ExecuteEvents :
       /\ e.confirm
       /\ inflight = {e, [e EXCEPT !.delivery = 2]}
  /\ effect = Quiet
  /\ nEvents = 2

NextReplay ==
  \/ (\E h \in inflight : ExecHandle(h) /\ UNCHANGED <<tool, thread, agentVars>>)
  \/ (\E h \in inflight : ExecSettles(h) /\ UNCHANGED <<tool, thread, agentVars>>)
  \/ (\E h \in inflight : ExecCleanup(h) /\ UNCHANGED <<tool, thread, agentVars>>)

SpecReplay == InitReplay /\ [][NextReplay]_vars

\* ------------------------------------------------------------------------
\* The selection handlers on their own: every selection event, for every
\* record the anchor can have, none at all included, with or without the
\* session of another anchor in the map.
\* ------------------------------------------------------------------------

SelectionEvents ==
  {[Free EXCEPT !.phase = "event", !.kind = "cmd_action", !.value = v] :
     v \in ActionValues}
  \cup {[Free EXCEPT !.phase = "event", !.kind = "cmd_namespace", !.value = v] :
          v \in UserNamespaces}
  \cup {[Free EXCEPT !.phase = "event", !.kind = "cmd_resource_type", !.value = v] :
          v \in ResourceTypeValues}
  \cup {[Free EXCEPT !.phase = "event", !.kind = "cmd_resource_name", !.value = "api-7f9"]}

SelectMaps ==
  {EmptyMap} \cup {[k \in {Key} |-> state] : state \in Sessions}
  \cup {[k \in {OtherKey} |-> OtherSession]}
  \cup {[k \in {Key, OtherKey} |-> IF k = Key THEN state ELSE OtherSession] :
          state \in Sessions}

InitSelect ==
  /\ ToolIdle
  /\ AgentIdle
  /\ commandBuilderState \in SelectMaps
  /\ visible = buildCommandBuilderBlocks(GetOrDefault.action, GetOrDefault.namespace,
                 GetOrDefault.resourceType, GetOrDefault.resourceName, <<"api-7f9">>)
  /\ \E e \in SelectionEvents : inflight = {e}
  /\ effect = Quiet
  /\ nEvents = 1

NextSelect ==
  \/ (\E h \in inflight : SelectHandle(h) /\ UNCHANGED <<tool, thread, agentVars>>)
  \/ (\E h \in inflight : Rerender(h) /\ UNCHANGED <<tool, thread, agentVars>>)

SpecSelect == InitSelect /\ [][NextSelect]_vars

\* ------------------------------------------------------------------------
\* The resource name from the cluster's list to the cluster operation: the
\* anchor has a session with an action, a namespace and a resource type, the
\* message shows the names the cluster listed, one of them longer than the
\* value of an option may be, and the user selects a name and executes.
\* ------------------------------------------------------------------------

LONG_NAME == "payments-reconciliation-worker-eu-west-1-canary-7c9d8f6b54-x2k4q-replica-set-000"

NameLists == {<<"api-7f9", LONG_NAME>>}

ListedNames == UNION {{l[i] : i \in DOMAIN l} : l \in NameLists}

NameSessions ==
  {state \in Sessions :
     /\ state.action \in UserActions
     /\ state.namespace # ""
     /\ state.resourceType \in UserResourceTypes
     /\ state.resourceName = ""}

InitNames ==
  /\ ToolIdle
  /\ AgentIdle
  /\ commandBuilderState \in {[k \in {Key} |-> state] : state \in NameSessions}
  /\ \E fetched \in NameLists :
       visible = buildCommandBuilderBlocks(GetOrDefault.action, GetOrDefault.namespace,
                   GetOrDefault.resourceType, GetOrDefault.resourceName, fetched)
  /\ inflight = {}
  /\ effect = Quiet
  /\ nEvents = 0

NextNames ==
  \/ (\E value \in {OptionValue(r) : r \in ListedNames} :
        UserSelects("cmd_resource_name", value) /\ UNCHANGED <<tool, thread, agentVars>>)
  \/ (\E replicas \in UserReplicaStates \cup {NoReplicaInput} :
        UserExecutes(replicas) /\ UNCHANGED <<tool, thread, agentVars>>)
  \/ (\E h \in inflight : SelectHandle(h) /\ UNCHANGED <<tool, thread, agentVars>>)
  \/ (\E h \in inflight : RerenderFrom(h, NameLists) /\ UNCHANGED <<tool, thread, agentVars>>)
  \/ (\E h \in inflight : ExecHandle(h) /\ UNCHANGED <<tool, thread, agentVars>>)
  \/ (\E h \in inflight : ExecSettles(h) /\ UNCHANGED <<tool, thread, agentVars>>)
  \/ (\E h \in inflight : ExecCleanup(h) /\ UNCHANGED <<tool, thread, agentVars>>)

SpecNames == InitNames /\ [][NextNames]_vars

\* ------------------------------------------------------------------------
\* A cancel event and a selection event of the same anchor: the user has
\* picked an option and pressed cancel, and the two handlers have started;
\* the steps of the two interleave at their awaits.
\* ------------------------------------------------------------------------

CancelEvent == [Free EXCEPT !.phase = "event", !.kind = "cmd_cancel"]

InitCancel ==
  /\ ToolIdle
  /\ AgentIdle
  /\ commandBuilderState \in {[k \in {Key} |-> state] : state \in Sessions}
  /\ visible = buildCommandBuilderBlocks(GetOrDefault.action, GetOrDefault.namespace,
                 GetOrDefault.resourceType, GetOrDefault.resourceName, <<"api-7f9">>)
  /\ \E e \in SelectionEvents : inflight = {e, CancelEvent}
  /\ effect = Quiet
  /\ nEvents = 2

NextCancel ==
  \/ (\E h \in inflight : SelectHandle(h) /\ UNCHANGED <<tool, thread, agentVars>>)
  \/ (\E h \in inflight : Rerender(h) /\ UNCHANGED <<tool, thread, agentVars>>)
  \/ (\E h \in inflight : CancelHandle(h) /\ UNCHANGED <<tool, thread, agentVars>>)
  \/ (\E h \in inflight : CancelUpdate(h) /\ UNCHANGED <<tool, thread, agentVars>>)

SpecCancel == InitCancel /\ [][NextCancel]_vars

\* ------------------------------------------------------------------------
\* The handlers of questions: app_mention with another text than "command"
\* and the direct message handler.  Both post a placeholder, run
\* analyzeQuestion and replace the placeholder by the answer or by the
\* error.  Of the run, the handler model keeps what reaches the cluster:
\* the executeTool dispatch of every tool call the model backend requests.
\* ------------------------------------------------------------------------

QuestionKinds == {"app_mention", "message"}

\* app_mention and message up to the await of the placeholder's post.  A
\* mention without question is answered with the help text; a direct
\* message without text is ignored.
QuestionHandle(h) ==
  /\ h.phase = "event"
  /\ h.kind \in QuestionKinds
  /\ IF h.value = "" THEN
       /\ effect' = Effect(h.kind, <<>>,
                           IF h.kind = "app_mention"
                           THEN Post("help", FALSE, <<>>, <<"Ask me anything">>)
                           ELSE NoPost,
                           FALSE)
       /\ Finish(h)
     ELSE
       /\ effect' = Effect(h.kind, <<>>,
                           Post("placeholder", FALSE, <<>>, <<"Looking into it...">>),
                           FALSE)
       /\ Move(h, [h EXCEPT !.phase = "agent"])
  /\ UNCHANGED <<commandBuilderState, visible, nEvents>>

\* analyzeQuestion dispatches one tool call of a response: executeTool with
\* the requested name and the parsed arguments.
QuestionTool(h) ==
  /\ h.phase = "agent"
  /\ \E name \in RequestableNames, t \in ArgTexts :
       /\ JSONParse(ArgumentsOrDefault(t)).ok
       /\ effect' = Effect(h.kind,
                           executeTool(name, JSONParse(ArgumentsOrDefault(t)).value,
                                       "data").calls,
                           NoPost, FALSE)
       /\ Move(h, [h EXCEPT !.value = name])
  /\ UNCHANGED <<commandBuilderState, visible, nEvents>>

\* A variant in which the handler ends without the update.
QuestionReplySilent(h) ==
  /\ h.phase = "agent"
  /\ effect' = Effect(h.kind, <<>>, NoPost, FALSE)
  /\ Finish(h)
  /\ UNCHANGED <<commandBuilderState, visible, nEvents>>

\* analyzeQuestion returns or throws and the placeholder is replaced.
QuestionReply(h) ==
  /\ h.phase = "agent"
  /\ \E text \in {<<"answer">>, <<"Sorry, I encountered an error: ">>} :
       effect' = Effect(h.kind, <<>>, Post("answer", FALSE, <<>>, text), FALSE)
  /\ Finish(h)
  /\ UNCHANGED <<commandBuilderState, visible, nEvents>>

\* ------------------------------------------------------------------------
\* The thread history of a question asked in a thread: the handler posts
\* the placeholder in the thread, fetches the thread, drops the last entry
\* of the history and starts the run with the rest.
\* ------------------------------------------------------------------------

PLACEHOLDER == <<"Looking into it...">>
FETCH_LIMIT == 20

\* The parts of a message text the cleaning looks at: a mention of a user
\* (what /<@[A-Z0-9]+>/ matches), the annotation the handler appends to its
\* answers (from where on /\n\n_Tools used:.*$/s matches) and white space.
MENTION == "<@U0BOT>"
TOOLS_USED == "_Tools used: get_pods (1.0s)_"
SPACE == " "

\* A message of the thread: the parts of its text, and whether it has a
\* bot_id or the user id of the bot.
ThreadMessage(text, bot) == [text |-> text, bot |-> bot]

NotMention(part) == part # MENTION

\* The text up to the annotation.
RECURSIVE BeforeToolsUsed(_)
BeforeToolsUsed(text) ==
  IF text = <<>> THEN <<>>
  ELSE IF Head(text) = TOOLS_USED THEN <<>>
  ELSE <<Head(text)>> \o BeforeToolsUsed(Tail(text))

\* String.prototype.trim on the parts.
RECURSIVE TrimLeft(_)
TrimLeft(text) ==
  IF text = <<>> THEN text
  ELSE IF Head(text) = SPACE THEN TrimLeft(Tail(text)) ELSE text

RECURSIVE TrimRight(_)
TrimRight(text) ==
  IF text = <<>> THEN text
  ELSE IF text[Len(text)] = SPACE THEN TrimRight(SubSeq(text, 1, Len(text) - 1))
  ELSE text

\* msg.text.replace(/<@[A-Z0-9]+>/g, '').replace(/\n\n_Tools used:.*$/s, '').trim()
cleanText(text) ==
  TrimRight(TrimLeft(BeforeToolsUsed(SelectSeq(text, NotMention))))

\* One entry of the history.
ConversationMessage(role, content) == [role |-> role, content |-> content]

\* The loop of getThreadHistory over the fetched messages.
RECURSIVE HistoryOf(_)
HistoryOf(fetched) ==
  IF fetched = <<>> THEN <<>>
  ELSE LET msg == fetched[Len(fetched)]
           front == HistoryOf(SubSeq(fetched, 1, Len(fetched) - 1)) IN
       IF msg.text = <<>> THEN front
       ELSE IF msg.text = PLACEHOLDER THEN front
       ELSE IF cleanText(msg.text) = <<>> THEN front
       ELSE Append(front, ConversationMessage(IF msg.bot THEN "assistant" ELSE "user",
                                              cleanText(msg.text)))

\* conversations.replies with a limit: the thread from its first message
\* on, at most limit messages.
Replies(messagesOfThread, limit) ==
  SubSeq(messagesOfThread, 1,
         IF Len(messagesOfThread) < limit THEN Len(messagesOfThread) ELSE limit)

\* getThreadHistory: the history of the fetched messages, or the empty
\* history when the fetch fails.
getThreadHistory(messagesOfThread, outcome) ==
  IF outcome = "fail" THEN <<>>
  ELSE HistoryOf(Replies(messagesOfThread, FETCH_LIMIT))

\* if (conversationHistory.length > 0) conversationHistory.pop()
Pop(history) ==
  IF Len(history) > 0 THEN SubSeq(history, 1, Len(history) - 1) ELSE history

\* messages of analyzeQuestion for a question and a history.
SeedConversation(question, history) ==
  <<Message("system", SYSTEM_PROMPT, <<>>, "")>>
  \o [i \in DOMAIN history |-> Message(history[i].role, history[i].content, <<>>, "")]
  \o <<Message("user", question, <<>>, "")>>

\* The message of the question in the thread, and the question the handler
\* takes from it: the mention handler removes the mentions and trims, the
\* direct message handler trims.
QuestionMessage(kind) ==
  IF kind = "app_mention"
  THEN ThreadMessage(<<MENTION, SPACE, "question">>, FALSE)
  ELSE ThreadMessage(<<"question", SPACE>>, FALSE)

QuestionOf(kind) ==
  IF kind = "app_mention"
  THEN TrimRight(TrimLeft(SelectSeq(QuestionMessage(kind).text, NotMention)))
  ELSE TrimRight(TrimLeft(QuestionMessage(kind).text))

\* What the thread can hold before the question: one or two messages of
\* any kind, or a long run of messages of users.
EarlierMessages ==
  {ThreadMessage(<<MENTION, SPACE, "why is api down">>, FALSE),
   ThreadMessage(<<"api is crash looping", TOOLS_USED>>, TRUE),
   ThreadMessage(PLACEHOLDER, TRUE),
   ThreadMessage(<<>>, FALSE),
   ThreadMessage(<<MENTION, SPACE>>, FALSE)}

LongThreadLengths == {18, 19, 20}

EarlierThreads ==
  UNION {[1..n -> EarlierMessages] : n \in 1..2}
  \cup {[i \in 1..n |-> ThreadMessage(<<"note ", ToString(i)>>, FALSE)] :
          n \in LongThreadLengths}

\* The number of messages others post in the thread while the handler runs.
MaxPosts == 1

InitHistory ==
  /\ ToolIdle
  /\ AgentOff
  /\ commandBuilderState = EmptyMap
  /\ visible = NoRender("none")
  /\ effect = Quiet
  /\ nEvents = 0
  /\ \E kind \in QuestionKinds, earlier \in EarlierThreads :
       /\ thread = Append(earlier, QuestionMessage(kind))
       /\ inflight = {[Free EXCEPT !.phase = "event", !.kind = kind, !.value = "question"]}

\* Someone posts a message in the thread.
ThreadPost ==
  /\ nEvents < MaxPosts
  /\ inflight # {}
  /\ nEvents' = nEvents + 1
  /\ thread' = Append(thread, ThreadMessage(<<"me too">>, FALSE))
  /\ UNCHANGED <<tool, agentVars, commandBuilderState, visible, inflight, effect>>

\* The handler of the question posts the placeholder in the thread.
HistoryPlaceholder(h) ==
  /\ h.phase = "event"
  /\ h.kind \in QuestionKinds
  /\ h.value # ""
  /\ thread' = Append(thread, ThreadMessage(PLACEHOLDER, TRUE))
  /\ effect' = Effect(h.kind, <<>>, Post("placeholder", FALSE, <<>>, PLACEHOLDER), FALSE)
  /\ Move(h, [h EXCEPT !.phase = "history"])
  /\ UNCHANGED <<tool, agentVars, commandBuilderState, visible, nEvents>>

\* getThreadHistory settles, the handler drops the last entry and calls
\* analyzeQuestion, which builds its conversation.
HistoryFetch(h) ==
  /\ h.phase = "history"
  /\ \E outcome \in {"data", "fail"} :
       /\ messages' = SeedConversation(QuestionOf(h.kind),
                                       Pop(getThreadHistory(thread, outcome)))
       /\ Move(h, [h EXCEPT !.phase = "agent", !.outcome = outcome])
  /\ effect' = Quiet
  /\ UNCHANGED <<tool, thread, toolsUsed, iterations, agentPc, batch, pending,
                 toolResults, modelCalls, sent, opsInvoked, agentOut,
                 commandBuilderState, visible, nEvents>>

NextHistory ==
  \/ ThreadPost
  \/ \E h \in inflight : HistoryPlaceholder(h)
  \/ \E h \in inflight : HistoryFetch(h)

SpecHistory == InitHistory /\ [][NextHistory]_vars

\* ------------------------------------------------------------------------
\* Every handler on its own: every event the platform can deliver, for
\* every session record the anchor can have.
\* ------------------------------------------------------------------------

CancelEvents == {[Free EXCEPT !.phase = "event", !.kind = "cmd_cancel"]}

QuestionEvents ==
  {[Free EXCEPT !.phase = "event", !.kind = k, !.value = v] :
     k \in QuestionKinds, v \in {"", "question"}}

InitHandlers ==
  /\ ToolIdle
  /\ AgentIdle
  /\ effect = Quiet
  /\ nEvents = 1
  /\ \/ /\ commandBuilderState \in
              {EmptyMap} \cup {[k \in {Key} |-> state] : state \in Sessions}
        /\ visible = buildCommandBuilderBlocks(GetOrDefault.action, GetOrDefault.namespace,
                        GetOrDefault.resourceType, GetOrDefault.resourceName, <<"api-7f9">>)
        /\ \E e \in SelectionEvents \cup ExecuteEvents \cup CancelEvents : inflight = {e}
     \/ /\ commandBuilderState = EmptyMap
        /\ visible = NoRender("none")
        /\ \E e \in QuestionEvents : inflight = {e}
     \/ /\ commandBuilderState = EmptyMap
        /\ visible = NoRender("none")
        /\ inflight = {}

NextHandlers ==
  \/ (Mention /\ UNCHANGED <<tool, thread, agentVars>>)
  \/ (\E h \in inflight : MentionStore(h) /\ UNCHANGED <<tool, thread, agentVars>>)
  \/ (\E h \in inflight : SelectHandle(h) /\ UNCHANGED <<tool, thread, agentVars>>)
  \/ (\E h \in inflight : Rerender(h) /\ UNCHANGED <<tool, thread, agentVars>>)
  \/ (\E h \in inflight : ExecHandle(h) /\ UNCHANGED <<tool, thread, agentVars>>)
  \/ (\E h \in inflight : ExecSettles(h) /\ UNCHANGED <<tool, thread, agentVars>>)
  \/ (\E h \in inflight : ExecCleanup(h) /\ UNCHANGED <<tool, thread, agentVars>>)
  \/ (\E h \in inflight : CancelHandle(h) /\ UNCHANGED <<tool, thread, agentVars>>)
  \/ (\E h \in inflight : CancelUpdate(h) /\ UNCHANGED <<tool, thread, agentVars>>)
  \/ (\E h \in inflight : QuestionHandle(h) /\ UNCHANGED <<tool, thread, agentVars>>)
  \/ (\E h \in inflight : QuestionTool(h) /\ UNCHANGED <<tool, thread, agentVars>>)
  \/ (\E h \in inflight : QuestionReply(h) /\ UNCHANGED <<tool, thread, agentVars>>)

SpecHandlers == InitHandlers /\ [][NextHandlers]_vars

\* The handlers of questions under the scheduling of the event loop: a
\* handler that was started runs, and analyzeQuestion, bounded by
\* MAX_ITERATIONS, returns or throws once its model and tool calls have
\* returned, after which the handler's update is sent.
FairQuestions ==
  /\ WF_vars(\E h \in inflight : QuestionHandle(h) /\ UNCHANGED <<tool, thread, agentVars>>)
  /\ WF_vars(\E h \in inflight : QuestionReply(h) /\ UNCHANGED <<tool, thread, agentVars>>)

SpecHandlersFair == SpecHandlers /\ FairQuestions

\* ------------------------------------------------------------------------
\* Properties of the tool registry and of the agent loop
\* ------------------------------------------------------------------------

\* C2: whatever tool name and argument object the model requests, registered
\* or not, executeTool invokes no WRITE operation; and a registered tool
\* called with an argument object invokes exactly one operation, a READ.
C2_ToolsNeverWrite ==
  tool.pc = "done" =>
    /\ Ops(tool.calls) \cap WRITE_OPS = {}
    /\ (tool.name \in RegisteredTools /\ tool.args.kind # "null") =>
         (Len(tool.calls) = 1 /\ tool.calls[1].op \in READ_OPS)
    /\ tool.name \notin RegisteredTools => tool.calls = <<>>

\* An unregistered, WRITE-sounding name was dispatched and reached nothing.
C2_Witness ==
  tool.pc = "done" /\ tool.name = "delete_pod" /\ tool.args.kind = "object"
  /\ tool.calls = <<>>

\* C3: a run never makes more than 10 calls to the model backend.
C3_AtMostTenModelCalls == modelCalls <= 10 /\ iterations = modelCalls

\* Ten responses with tool calls were answered and the run ended at the bound.
C3_Witness ==
  agentPc = "done" /\ modelCalls = 10 /\ agentOut.kind = "returned"
  /\ agentOut.answer = LIMIT_ANSWER

\* The first response of the run has arrived and carries no tool calls.
FirstResponseIsText ==
  /\ iterations = 1
  /\ Len(messages) = Len(sent) + 1
  /\ messages[Len(messages)].role = "assistant"
  /\ messages[Len(messages)].tool_calls = <<>>

\* C4 as stated: when the first response carries no tool calls, the run
\* makes one model call, dispatches no tool, and returns no tools used and
\* the text of the response verbatim, the empty text included.
C4_FirstTextVerbatim ==
  FirstResponseIsText =>
    /\ agentPc = "done" /\ agentOut.kind = "returned" /\ modelCalls = 1
    /\ agentOut.toolsUsed = <<>> /\ opsInvoked = {} /\ pending = {}
    /\ agentOut.answer = messages[Len(messages)].content

\* C4 amended: the same, except that an empty text is replaced by the fixed
\* fallback answer.
C4_FirstTextOrFallback ==
  FirstResponseIsText =>
    /\ agentPc = "done" /\ agentOut.kind = "returned" /\ modelCalls = 1
    /\ agentOut.toolsUsed = <<>> /\ opsInvoked = {} /\ pending = {}
    /\ messages[Len(messages)].content # <<>> =>
         agentOut.answer = messages[Len(messages)].content
    /\ messages[Len(messages)].content = <<>> =>
         agentOut.answer = <<"I was unable to analyze this issue.">>

\* A first response with a non-empty text was returned as the answer.
C4_Witness ==
  FirstResponseIsText /\ agentOut.kind = "returned"
  /\ agentOut.answer = <<"answer">>

\* C5: a tool call whose argument text does not parse does not make the run
\* fail: the run waits for the batch and goes on to the next model call.
C5_MalformedArgsNotFatal ==
  (\E i \in DOMAIN batch : ~Parses(batch[i])) => agentOut.kind # "threw"

\* A registered tool was dispatched, its cluster call was made and failed.
ClusterCallFailed ==
  /\ tool.pc = "done" /\ tool.name \in RegisteredTools
  /\ tool.calls # <<>> /\ tool.outcome = "fail"

\* The payload is the error text of the tool.
IsErrorPayload(payload, name) ==
  Len(payload) >= 3 /\ payload[1] = "Error executing " /\ payload[2] = name
  /\ payload[3] = ": "

\* C15: whenever the cluster call of a registered tool fails, executeTool
\* returns the payload 'Error executing <tool>: <message>'.
C15_FailureIsError ==
  ClusterCallFailed => IsErrorPayload(tool.payload, tool.name)

\* C16: a tool call with a name that is not registered makes no cluster
\* call and settles (it does not fail the run) with the payload 'Unknown
\* tool: <name>', which becomes the tool message of that call; once the
\* batch has settled the run is back at the loop test with the tool
\* messages appended, and below the bound the next model call follows.
C16_UnknownToolIsPayload ==
  [][/\ (agentPc = "model" /\ agentPc' = "tools"
         /\ \A i \in DOMAIN batch' : batch'[i].name \notin RegisteredTools)
          => opsInvoked' = opsInvoked
     /\ \A i \in pending :
          (i \notin pending' /\ batch[i].name \notin RegisteredTools)
            => /\ toolResults'[i] =
                    Message("tool", <<"Unknown tool: ", batch[i].name>>, <<>>, batch[i].id)
               /\ agentOut' = agentOut
               /\ (agentPc = "tools" /\ pending' = {})
                    => /\ agentPc' = "loop"
                       /\ Len(messages') = Len(messages) + Len(batch)
                       /\ messages'[Len(messages) + i] = toolResults'[i]
     /\ (agentPc = "loop" /\ iterations < 10)
          => (agentPc' = "model" /\ modelCalls' = modelCalls + 1 /\ sent' = messages)]_vars

\* The payload of the unknown tool restart_deployment was sent to the model
\* backend with the second model call, and nothing reached the cluster.
C16_Witness ==
  /\ modelCalls = 2 /\ agentPc = "model" /\ opsInvoked = {}
  /\ sent[Len(sent)] =
       Message("tool", <<"Unknown tool: ", "restart_deployment">>, <<>>, "c1")

\* The tool names requested by the responses received so far.
RequestedNames ==
  UNION {{messages[k].tool_calls[j].name : j \in DOMAIN messages[k].tool_calls} :
           k \in {m \in DOMAIN messages : messages[m].role = "assistant"}}

\* The responses with tool calls received so far.
CallResponses ==
  {k \in DOMAIN messages : messages[k].role = "assistant" /\ messages[k].tool_calls # <<>>}

\* The sequence has every element of the set once and nothing else.
IsListingOf(seq, set) ==
  {seq[i] : i \in DOMAIN seq} = set /\ Len(seq) = Cardinality(set)

\* C17: a run whose ten model responses all carry tool calls ends by
\* returning, not raising, the fixed limit answer and as toolsUsed the
\* distinct tool names requested by the ten responses.
C17_LimitAnswerAfterTen ==
  (agentPc = "done" /\ Cardinality(CallResponses) = 10)
    => /\ agentOut.kind = "returned"
       /\ agentOut.answer = <<"I've gathered a lot of information but reached my analysis limit.">>
       /\ IsListingOf(agentOut.toolsUsed, RequestedNames)

\* The response to the latest model call has arrived and carries no tool
\* calls.
TextResponseArrived ==
  /\ Len(messages) = Len(sent) + 1
  /\ messages[Len(messages)].role = "assistant"
  /\ messages[Len(messages)].tool_calls = <<>>

\* C18 as stated: when k responses with tool calls (0 <= k < 10) are
\* followed by a response without, the run has made k + 1 model calls and
\* returns the text of that response, the empty text included, and as
\* toolsUsed the distinct tool names requested by the k responses.
C18_TextAfterCallsVerbatim ==
  TextResponseArrived =>
    /\ agentPc = "done" /\ agentOut.kind = "returned"
    /\ Cardinality(CallResponses) < 10
    /\ modelCalls = Cardinality(CallResponses) + 1
    /\ agentOut.answer = messages[Len(messages)].content
    /\ IsListingOf(agentOut.toolsUsed, RequestedNames)

\* C18 amended: the same, except that an empty text of the last response is
\* replaced by the fixed fallback answer.
C18_TextAfterCallsOrFallback ==
  TextResponseArrived =>
    /\ agentPc = "done" /\ agentOut.kind = "returned"
    /\ Cardinality(CallResponses) < 10
    /\ modelCalls = Cardinality(CallResponses) + 1
    /\ agentOut.answer =
         IF messages[Len(messages)].content = <<>>
         THEN <<"I was unable to analyze this issue.">>
         ELSE messages[Len(messages)].content
    /\ IsListingOf(agentOut.toolsUsed, RequestedNames)

\* Two responses with tool calls, one of them asking three times for
\* get_pods, were followed by a text, which was returned.
C18_Witness ==
  /\ TextResponseArrived /\ modelCalls = 3 /\ Len(toolsUsed) = 4
  /\ agentOut.kind = "returned" /\ agentOut.answer = <<"answer">>
  /\ IsListingOf(agentOut.toolsUsed, {"get_pods", "restart_deployment"})

\* C20: two invocations of executeTool with the same name and arguments on
\* the same cluster state return the same payload, whatever time passes
\* between them.
C20_SamePayloadTwice ==
  (tool.pc = "done" /\ "first" \in DOMAIN tool) => tool.payload = tool.first

\* The operations of the cluster client that read Secret objects.
SECRET_OPS == {"getSecrets"}

\* C21: whatever tool name and arguments the model requests, executeTool
\* invokes no operation that reads Secret objects.
C21_ToolsNeverReadSecrets ==
  tool.pc = "done" => Ops(tool.calls) \cap SECRET_OPS = {}

\* The model asked for get_secrets with a namespace and was told that the
\* tool is unknown.
C21_Witness ==
  /\ tool.pc = "done" /\ tool.name = "get_secrets" /\ tool.args.kind = "object"
  /\ "namespace" \in DOMAIN tool.args.obj
  /\ tool.calls = <<>> /\ tool.payload = <<"Unknown tool: ", "get_secrets">>

\* The run has thrown for a response without message.
ThrewNoResponse ==
  agentOut.kind = "threw" /\ agentOut.answer = <<"No response from OpenAI">>

\* C30: a response without message (the one step of the loop body that
\* appends nothing to the conversation) ends the run with the error 'No
\* response from OpenAI' given to the caller instead of a result, with no
\* tool call dispatched or pending; and once the run has thrown that error
\* it takes no further step: no model call, no tool call.
C30_NoMessageThrows ==
  [][/\ (agentPc = "model" /\ messages' = messages)
        => /\ ThrewNoResponse' /\ agentPc' = "done"
           /\ pending' = {} /\ opsInvoked' = opsInvoked /\ modelCalls' = modelCalls
           /\ toolsUsed' = toolsUsed
     /\ ~ThrewNoResponse]_vars

\* The second model call of a run, made after a round of tools, got a
\* response without message.
C30_Witness ==
  /\ ThrewNoResponse /\ agentPc = "done"
  /\ modelCalls = 2 /\ toolsUsed # <<>>

\* The conversations a run can start from: the system instruction, the
\* prior history in order, the question.
SeedConversations ==
  {<<Message("system", SYSTEM_PROMPT, <<>>, "")>>
     \o [i \in DOMAIN history |-> Message(history[i].role, history[i].content, <<>>, "")]
     \o <<Message("user", <<"question">>, <<>>, "")>> : history \in Histories}

\* The tool-result turns of a batch of tool calls, in the order of the
\* requests.
ResultTurns(calls) ==
  [k \in DOMAIN calls |-> Message("tool", ResultText(calls[k]), <<>>, calls[k].id)]

\* C31: no step of a run removes or changes an entry of the working
\* conversation; the first model call is sent the system instruction, the
\* prior history in order and the question; every later model call is
\* sent what the call before it was sent, followed by the response to
\* that call and by the tool-result turns of that response's tool calls.
C31_ConversationAppendOnly ==
  [][/\ Len(messages') >= Len(messages)
     /\ SubSeq(messages', 1, Len(messages)) = messages
     /\ modelCalls' = modelCalls + 1
        => IF modelCalls = 0 THEN sent' \in SeedConversations
           ELSE /\ Len(sent') = Len(sent) + 1 + Len(batch)
                /\ SubSeq(sent', 1, Len(sent)) = sent
                /\ sent'[Len(sent) + 1].role = "assistant"
                /\ sent'[Len(sent) + 1].tool_calls = batch
                /\ SubSeq(sent', Len(sent) + 2, Len(sent')) = ResultTurns(batch)]_vars

\* The second model call of a run with prior history was sent the first
\* response and the three tool-result turns of its calls.
C31_Witness ==
  /\ modelCalls = 2 /\ agentPc = "model"
  /\ Len(sent) = 8
  /\ sent[2].content = <<"earlier question">>
  /\ sent[5].tool_calls = BatchSameTool
  /\ sent[8].role = "tool" /\ sent[8].tool_call_id = "c3"

\* C32: once the iteration of a response with n tool calls is over and
\* none of its calls is in flight, the response is followed in the
\* conversation by exactly n tool-result turns, the k-th carrying the
\* identifier and the result of the k-th request.
C32_OneResultPerCall ==
  (agentPc # "tools" /\ pending = {})
  => \A j \in DOMAIN messages :
       messages[j].tool_calls # <<>>
       => LET n == Len(messages[j].tool_calls) IN
          /\ Len(messages) >= j + n
          /\ SubSeq(messages, j + 1, j + n) = ResultTurns(messages[j].tool_calls)
          /\ (j + n + 1 \in DOMAIN messages => messages[j + n + 1].role # "tool")

\* C33: a tool call of the run is in flight only while the run awaits the
\* tool calls of the current response: not at the loop test, not while a
\* model call is pending, and not once the run has returned or failed.
C33_NoCallInFlightOutsideBatch ==
  agentPc \in {"loop", "model", "done"} => pending = {}

\* ------------------------------------------------------------------------
\* Properties of the command builder
\* ------------------------------------------------------------------------

\* The step in which the handler of event h runs up to its first await.
Handles(h) == h \in inflight /\ h.phase = "event" /\ h \notin inflight'

HasSession == Key \in DOMAIN commandBuilderState
Session == commandBuilderState[Key]
SessionComplete ==
  HasSession /\ Session.action # "" /\ Session.namespace # "" /\ Session.resourceType # ""

Rejected(warning) ==
  /\ effect'.by = "cmd_execute"
  /\ effect'.calls = <<>>
  /\ effect'.post = Post("warning", FALSE, <<>>, warning)
  /\ commandBuilderState' = commandBuilderState
  /\ \A h2 \in inflight' : h2 \in inflight

\* C1: a WRITE operation is invoked only by an execute whose button was
\* pressed on a message that rendered it with the confirm dialog.
C1_WriteOnlyAfterConfirm ==
  Ops(effect.calls) \cap WRITE_OPS # {} => effect.confirmed

\* C6: an execute for an anchor without session record, or whose record has
\* no action, namespace or resource type, makes no cluster call, posts the
\* warning and leaves the session map as it is.
C6_IncompleteRejected ==
  [][\A h \in inflight :
       (Handles(h) /\ h.kind = "cmd_execute" /\ ~SessionComplete)
         => Rejected(<<"Please select at least an action, namespace, and resource type.">>)]_vars

\* A session with a namespace and a type but no action was refused.
C6_Witness ==
  /\ effect.by = "cmd_execute" /\ effect.post.kind = "warning" /\ effect.calls = <<>>
  /\ HasSession /\ Session.action = "" /\ Session.namespace = "prod"
  /\ Session.resourceType = "pods"

\* No replica count was entered: the input is not in the submitted state,
\* or it is there without a value or with an empty one.
NoCountEntered(h) ==
  ~h.replicas.present \/ ~h.replicas.hasValue \/ h.replicas.value = <<>>

\* C7: an execute on a scale session for which no replica count was entered
\* makes no cluster call, posts the warning and leaves the session as it is.
C7_ScaleWithoutCountRejected ==
  [][\A h \in inflight :
       (Handles(h) /\ h.kind = "cmd_execute" /\ SessionComplete
        /\ Session.action = "scale" /\ NoCountEntered(h))
         => Rejected(<<"Please enter the number of replicas for scale operation.">>)]_vars

\* The text is a non-negative integer: digits only, at least one.
IsCount(text) == text # <<>> /\ \A i \in DOMAIN text : IsDigit(text[i])

\* C8: an execute on a scale session whose submitted count is not a
\* non-negative integer (a negative or non-numeric text) is refused with
\* the warning, without cluster call, the session left as it is.
C8_BadCountRejected ==
  [][\A h \in inflight :
       (Handles(h) /\ h.kind = "cmd_execute" /\ SessionComplete
        /\ Session.action = "scale" /\ h.replicas.present /\ h.replicas.hasValue
        /\ h.replicas.value # <<>> /\ ~IsCount(h.replicas.value))
         => Rejected(<<"Please enter the number of replicas for scale operation.">>)]_vars

\* The number a text of digits denotes.
RECURSIVE CountOf(_)
CountOf(text) ==
  IF text = <<>> THEN 0
  ELSE 10 * CountOf(SubSeq(text, 1, Len(text) - 1)) + DigitValue(text[Len(text)])

\* C9: an execute on a session with action scale, type deployments, name N
\* and namespace S, submitted with the count n >= 0, makes exactly one
\* cluster call, scaleDeployment(N, S, n); the later steps of the handler
\* make none.
C9_ScalePassesCount ==
  [][\A h \in inflight :
       /\ (Handles(h) /\ h.kind = "cmd_execute" /\ SessionComplete
           /\ Session.action = "scale" /\ Session.resourceType = "deployments"
           /\ h.replicas.present /\ h.replicas.hasValue /\ IsCount(h.replicas.value))
            => effect'.calls = <<Call("scaleDeployment", Session.resourceName,
                                     Session.namespace, CountOf(h.replicas.value), NA)>>
       /\ (h.kind = "cmd_execute" /\ h.phase \in {"cluster", "post"} /\ h \notin inflight')
            => effect'.calls = <<>>]_vars

\* scaleDeployment was called with the three replicas the user entered.
C9_Witness ==
  effect.calls = <<Call("scaleDeployment", "api-7f9", "prod", 3, NA)>>
  /\ \E h \in inflight : h.phase = "cluster" /\ h.replicas.value = <<"3">>

\* C10: a namespace or resource type event leaves the session with an empty
\* resource name, and the message its handler renders shows no selected
\* resource name.
C10_NameCleared ==
  [][\A h \in inflight :
       /\ (Handles(h) /\ h.kind \in {"cmd_namespace", "cmd_resource_type"})
            => /\ Key \in DOMAIN commandBuilderState'
               /\ commandBuilderState'[Key].resourceName = ""
               /\ \E h2 \in inflight' :
                    h2.phase = "build" /\ h2.kind = h.kind /\ h2.args.resourceName = ""
       /\ (h.phase = "build" /\ h.kind \in {"cmd_namespace", "cmd_resource_type"}
           /\ h \notin inflight')
            => visible'.resourceName = "" /\ visible'.buttonValue.resourceName = ""]_vars

\* A namespace event has cleared the name that the message still shows.
C10_Witness ==
  /\ visible.resourceName = "api-7f9"
  /\ HasSession /\ Session.resourceName = ""
  /\ \E h \in inflight : h.phase = "build" /\ h.kind = "cmd_namespace"

\* The delete operation the claim assigns to a resource type.
DeletableTypes == {"pods", "deployments", "services", "configmaps", "jobs"}
DeleteOpOf(resourceType) ==
  CASE resourceType = "pods" -> "deletePod"
    [] resourceType = "deployments" -> "deleteDeployment"
    [] resourceType = "services" -> "deleteService"
    [] resourceType = "configmaps" -> "deleteConfigMap"
    [] resourceType = "jobs" -> "deleteJob"

\* The text (a sequence of pieces) has the piece x.
Contains(text, x) == \E i \in DOMAIN text : text[i] = x

\* C11: an execute on a session with action delete, a type T that has a
\* delete operation, a name N and a namespace S calls that operation with
\* (N, S) and nothing else; the handler's later steps make no cluster call,
\* the result it posts names N and S, and when it finishes the session
\* record of the anchor is absent.
C11_DeleteCallsOnce ==
  [][\A h \in inflight :
       /\ (Handles(h) /\ h.kind = "cmd_execute" /\ SessionComplete
           /\ Session.action = "delete" /\ Session.resourceType \in DeletableTypes
           /\ Session.resourceName # "")
            => /\ effect'.calls = <<Call(DeleteOpOf(Session.resourceType),
                                         Session.resourceName, Session.namespace, 0, NA)>>
               /\ \E h2 \in inflight' : h2.phase = "cluster" /\ h2.call = effect'.calls[1]
       /\ (h.kind = "cmd_execute" /\ h.phase = "cluster" /\ h.call.op \in WRITE_OPS
           /\ h.call.op # "scaleDeployment" /\ h.call.op # "restartDeployment"
           /\ h \notin inflight')
            => /\ effect'.calls = <<>>
               /\ effect'.post.kind = "result"
               /\ Contains(effect'.post.command, h.call.name)
               /\ Contains(effect'.post.command, h.call.namespace)
               /\ \E h2 \in inflight' : h2.phase = "post" /\ h2.call = h.call
       /\ (h.kind = "cmd_execute" /\ h.phase = "post" /\ h \notin inflight')
            => effect'.calls = <<>> /\ Key \notin DOMAIN commandBuilderState']_vars

\* deleteJob was called for the job api-7f9 of prod and its result posted.
C11_Witness ==
  /\ effect.by = "cmd_execute" /\ effect.post.kind = "result"
  /\ Contains(effect.post.command, "api-7f9") /\ Contains(effect.post.command, "prod")
  /\ effect.post.text = <<"output of ", "deleteJob">>
  /\ \E h \in inflight :
       h.phase = "post" /\ h.call = Call("deleteJob", "api-7f9", "prod", 0, NA)

\* C12: the session record of the anchor is removed only by a cancel event
\* or by an execute whose command was executed successfully: its cluster
\* call was made and returned its output.  An execute that ends in a
\* warning, a rejection text or a failed cluster call leaves the record.
C12_DeletedOnlyOnSuccessOrCancel ==
  [][(HasSession /\ Key \notin DOMAIN commandBuilderState') =>
       \E h \in inflight :
         /\ h \notin inflight'
         /\ \/ h.kind = "cmd_cancel"
            \/ /\ h.kind = "cmd_execute" /\ h.phase = "post"
               /\ h.call.op # ""
               /\ effect.post.text = <<"output of ", h.call.op>>]_vars

\* C13: the handler of a cancel event removes the session record of the
\* anchor, whatever it holds and also when there is none, then replaces the
\* message by the closed notice without blocks; neither step makes a
\* cluster call.
C13_CancelClears ==
  [][\A h \in inflight :
       /\ (Handles(h) /\ h.kind = "cmd_cancel")
            => /\ Key \notin DOMAIN commandBuilderState'
               /\ effect'.calls = <<>>
               /\ \E h2 \in inflight' : h2.phase = "close" /\ h2.kind = "cmd_cancel"
       /\ (h.kind = "cmd_cancel" /\ h.phase = "close" /\ h \notin inflight')
            => /\ visible' = NoRender("closed")
               /\ effect'.calls = <<>>
               /\ commandBuilderState' = commandBuilderState]_vars

\* A cancel pressed on a message with selections has closed it.
C13_Witness ==
  /\ visible.kind = "closed" /\ effect.by = "cmd_cancel" /\ ~HasSession
  /\ inflight = {} /\ nEvents >= 3

\* C14: a WRITE operation is invoked only by a step of the handler of an
\* execute event; the handlers of selection and cancel events, of mentions
\* and of direct messages, the re-renders included, invoke none.
C14_WriteOnlyByExecute ==
  Ops(effect.calls) \cap WRITE_OPS # {} => effect.by = "cmd_execute"

\* The run of a direct message requested delete_pod and that reached no
\* cluster operation.
C14_Witness ==
  /\ effect.by = "message" /\ effect.calls = <<>>
  /\ \E h \in inflight : h.phase = "agent" /\ h.value = "delete_pod"

\* The (action, resourceType) pairs the claim lists as having no operation.
NoMatchingOperation(action, resourceType) ==
  \/ action \in {"restart", "scale", "rollout-status", "rollout-history"}
       /\ resourceType # "deployments"
  \/ action = "delete" /\ resourceType \notin DeletableTypes
  \/ action = "describe" /\ resourceType \notin {"pods", "configmaps"}
  \/ action \in {"logs", "logs-previous"} /\ resourceType # "pods"

\* The operation that matches a pair that has one.
MatchingOperation(action, resourceType) ==
  CASE action = "get" -> ListOp(resourceType)
    [] action = "logs" -> "getPodLogs"
    [] action = "logs-previous" -> "getPreviousPodLogs"
    [] action = "describe" ->
         IF resourceType = "pods" THEN "describePod" ELSE "describeConfigMap"
    [] action = "top" -> "getPodMetrics"
    [] action = "events" -> "getEvents"
    [] action = "rollout-status" -> "getRolloutStatus"
    [] action = "rollout-history" -> "getRolloutHistory"
    [] action = "delete" -> DeleteOpOf(resourceType)
    [] action = "restart" -> "restartDeployment"
    [] action = "scale" -> "scaleDeployment"

\* C19: the handler of an execute event invokes at most one cluster
\* operation, the one matching the (action, resourceType) pair of the
\* session; for a pair without matching operation it invokes none and posts
\* a text instead.
C19_OneMatchingOperation ==
  [][\A h \in inflight :
       /\ (Handles(h) /\ h.kind = "cmd_execute" /\ SessionComplete)
            => /\ Len(effect'.calls) <= 1
               /\ NoMatchingOperation(Session.action, Session.resourceType)
                    => (effect'.calls = <<>> /\ effect'.post.kind \in {"result", "warning"})
               /\ effect'.calls # <<>>
                    => effect'.calls[1].op =
                         MatchingOperation(Session.action, Session.resourceType)
       /\ (h.kind = "cmd_execute" /\ h.phase \in {"cluster", "post"} /\ h \notin inflight')
            => effect'.calls = <<>>]_vars

\* The cluster calls the execute handler issues for a session record and
\* the replica state of an event.
ExecCallsOf(state, replicas) ==
  IF state.action = "scale"
  THEN IF ReplicasMissing(ScaleReplicas(replicas)) THEN <<>>
       ELSE executeCommandWithScaleCalls(state.action, state.namespace,
              state.resourceType, state.resourceName, ScaleReplicas(replicas).parsed.n)
  ELSE executeCommandCalls(state.action, state.namespace, state.resourceType,
                           state.resourceName)

\* C22: the execute handler has no replay guard.  Whenever a delivery of
\* the execute event is handled while the record of the anchor is a
\* complete WRITE session, the handler issues the WRITE of that record, an
\* execute of the same session being under way or not.
C22_NoReplayGuard ==
  [][\A h \in inflight :
       (Handles(h) /\ h.kind = "cmd_execute" /\ HasSession
        /\ ~Incomplete(TRUE, Session) /\ isWriteAction(Session.action))
       => effect'.calls = ExecCallsOf(Session, h.replicas)]_vars

\* Both deliveries have issued the same WRITE and await the cluster.
C22_Witness ==
  \E h1 \in inflight, h2 \in inflight :
    /\ h1.delivery = 1 /\ h2.delivery = 2
    /\ h1.confirm /\ h2.confirm
    /\ h1.phase = "cluster" /\ h2.phase = "cluster"
    /\ h1.call = h2.call /\ h1.call.op \in WRITE_OPS

\* C23: once no selection handler of the anchor is in flight, the builder
\* message shows the action, namespace, resource type and resource name of
\* the session record.
C23_FinalRenderIsCurrent ==
  (HasSession /\ visible.kind = "builder"
   /\ \A h \in inflight : h.kind \notin SelectionKinds)
  => /\ visible.action = Session.action
     /\ visible.namespace = Session.namespace
     /\ visible.resourceType = Session.resourceType
     /\ visible.resourceName = Session.resourceName

\* The fields of the record a selection event may assign.
OwnFields(kind) ==
  CASE kind = "cmd_action" -> {"action"}
    [] kind = "cmd_namespace" -> {"namespace", "resourceName"}
    [] kind = "cmd_resource_type" -> {"resourceType", "resourceName"}
    [] kind = "cmd_resource_name" -> {"resourceName"}

\* C24: a selection handler leaves every field of the anchor's record as
\* it was (empty when there was no record) except the field it selects,
\* and the resource name for a namespace or resource type event; the
\* records of the other anchors stay in the map unchanged, and the
\* re-render does not touch the map.
C24_SelectionFrame ==
  [][\A h \in inflight :
       (h.kind \in SelectionKinds /\ h \notin inflight')
       => /\ DOMAIN commandBuilderState' = DOMAIN commandBuilderState \cup {Key}
          /\ \A k \in DOMAIN commandBuilderState \ {Key} :
               commandBuilderState'[k] = commandBuilderState[k]
          /\ \A f \in DOMAIN EmptySession \ OwnFields(h.kind) :
               commandBuilderState'[Key][f] = GetOrDefault[f]
          /\ h.phase = "build" => commandBuilderState' = commandBuilderState]_vars

\* An action event was applied to a record with namespace, resource type
\* and resource name, next to the session of the other anchor.
C24_Witness ==
  \E h \in inflight :
    /\ h.phase = "build" /\ h.kind = "cmd_action"
    /\ HasSession /\ Session.action = h.value
    /\ Session.namespace # "" /\ Session.resourceType # "" /\ Session.resourceName # ""
    /\ OtherKey \in DOMAIN commandBuilderState
    /\ commandBuilderState[OtherKey] = OtherSession

\* The record with the selection of an event and nothing else.
FreshRecord(kind, value) ==
  CASE kind = "cmd_action" -> [EmptySession EXCEPT !.action = value]
    [] kind = "cmd_namespace" -> [EmptySession EXCEPT !.namespace = value]
    [] kind = "cmd_resource_type" -> [EmptySession EXCEPT !.resourceType = value]
    [] kind = "cmd_resource_name" -> [EmptySession EXCEPT !.resourceName = value]

\* C25: a selection event handled while the anchor has no record stores a
\* record that is empty except for the selected field and goes on to the
\* re-render with that record; the re-render of a selection handler puts
\* the builder with the selections of its record in place of the message.
C25_SelectionRecreatesRecord ==
  [][\A h \in inflight :
       /\ (Handles(h) /\ h.kind \in SelectionKinds /\ ~HasSession)
          => /\ Key \in DOMAIN commandBuilderState'
             /\ commandBuilderState'[Key] = FreshRecord(h.kind, h.value)
             /\ [h EXCEPT !.phase = "build", !.args = FreshRecord(h.kind, h.value)]
                  \in inflight'
       /\ (h.kind \in SelectionKinds /\ h.phase = "build" /\ h \notin inflight')
          => /\ visible'.kind = "builder"
             /\ visible'.buttonValue = h.args]_vars

\* The anchor's record holds the selected resource type and nothing else,
\* no other record is in the map, and the builder shows that selection.
C25_Witness ==
  /\ inflight = {}
  /\ DOMAIN commandBuilderState = {Key}
  /\ Session = FreshRecord("cmd_resource_type", "pods")
  /\ visible.kind = "builder" /\ visible.buttonValue = Session
  /\ effect.by = "cmd_resource_type"

\* C26: the execute button of every rendered builder carries the confirm
\* dialog exactly when the rendered action is delete, restart or scale,
\* and has the destructive style exactly then; and the write flag of every
\* entry of the ACTIONS table equals isWriteAction of its value.
C26_ConfirmIffWrite ==
  /\ visible.kind = "builder"
     => /\ visible.confirm <=> visible.action \in {"delete", "restart", "scale"}
        /\ visible.style = "danger" <=> visible.action \in {"delete", "restart", "scale"}
        /\ visible.style \in {"danger", "primary"}
  /\ \A i \in DOMAIN ActionTable :
       ActionTable[i].write <=> isWriteAction(ActionTable[i].value)

\* The re-render after the selection of restart carries the dialog.
C26_Witness ==
  /\ effect.by = "cmd_action"
  /\ visible.kind = "builder" /\ visible.action = "restart"
  /\ visible.confirm /\ visible.style = "danger"

\* C27: when the cluster call of an execute has failed, the handler goes
\* on to post the result, and the result it posts is the text 'Error:
\* <message>' of the failure.
C27_FailedCallIsErrorResult ==
  \A h \in inflight :
    (h.kind = "cmd_execute" /\ h.phase = "post" /\ h.outcome = "fail")
    => /\ effect.post.kind = "result"
       /\ effect.post.text = <<"Error: ", "api failure">>

\* C28: the handler of a mention or of a direct message without a question
\* posts a message to the user and does not go on to the agent run.
C28_EmptyQuestionIsAnswered ==
  [][\A h \in inflight :
       (Handles(h) /\ h.kind \in QuestionKinds /\ h.value = "")
       => /\ effect'.post.kind # "none"
          /\ \A g \in inflight' : g.phase # "agent"]_vars

\* A handler of a question that is not empty is in flight.
QuestionInFlight ==
  \E h \in inflight : h.kind \in QuestionKinds /\ h.value # ""

\* C29: the handler of a question that is not empty posts the placeholder
\* and starts the run; while the run goes on it posts nothing; it ends only
\* by the step that replaces the placeholder by the answer or by the
\* error text, so the placeholder is replaced exactly once; and with the
\* calls of the run returning, that step is eventually taken.
C29_PlaceholderReplacedOnce ==
  /\ [][\A h \in inflight :
          (h.kind \in QuestionKinds /\ h.value # "")
          => /\ Handles(h)
                => /\ effect'.post.kind = "placeholder"
                   /\ [h EXCEPT !.phase = "agent"] \in inflight'
             /\ (h.phase = "agent" /\ h \notin inflight' /\ QuestionInFlight')
                => effect'.post.kind = "none"
             /\ (h.phase = "agent" /\ h \notin inflight' /\ ~QuestionInFlight')
                => /\ effect'.post.kind = "answer"
                   /\ effect'.post.text \in
                        {<<"answer">>, <<"Sorry, I encountered an error: ">>}]_vars
  /\ QuestionInFlight ~> (~QuestionInFlight /\ effect.post.kind = "answer")

\* The run of a direct message has dispatched a tool and its placeholder
\* is still showing.
C29_Witness ==
  \E h \in inflight :
    /\ h.kind = "message" /\ h.phase = "agent" /\ h.value = "get_pods"
    /\ effect.calls # <<>> /\ effect.post.kind = "none"

\* The position of the question in the thread.
QuestionIndex(kind) ==
  CHOOSE i \in DOMAIN thread : thread[i] = QuestionMessage(kind)

\* C34: when the history of a thread reply was fetched, the conversation
\* the run starts with holds, between the system instruction and the
\* question, the history of every message the thread had before the
\* question, and nothing else.
C34_HistoryIsEarlierThread ==
  \A h \in inflight :
    (h.phase = "agent" /\ h.outcome = "data")
    => messages = SeedConversation(QuestionOf(h.kind),
                    HistoryOf(SubSeq(thread, 1, QuestionIndex(h.kind) - 1)))

\* C35: whenever the execute handler invokes a WRITE operation, the button
\* that was pressed carried the confirm dialog, and the action, namespace,
\* resource type and resource name the command is built from are the ones
\* the pressed message displayed.
C35_WriteIsWhatWasConfirmed ==
  [][\A h \in inflight :
       (Handles(h) /\ h.kind = "cmd_execute"
        /\ Ops(effect'.calls) \cap WRITE_OPS # {})
       => /\ h.confirm
          /\ HasSession
          /\ h.shown = Session]_vars

\* C36: no handler step invokes a WRITE operation with an empty resource
\* name.
C36_NoWriteWithoutName ==
  \A i \in DOMAIN effect.calls :
    effect.calls[i].op \in WRITE_OPS => effect.calls[i].name # ""

\* C37: of two deliveries of the execute event of a session, with no
\* selection in between, the one handled after the other has run to its
\* clean-up (the only step that leaves a single handler and no post) finds
\* no record: it makes no cluster call, posts the 'please select' warning
\* and ends, and the anchor still has no record.
C37_RepeatedExecuteIsRejected ==
  [][\A h \in inflight :
       (Handles(h) /\ h.kind = "cmd_execute" /\ inflight = {h} /\ effect = Quiet)
       => /\ ~HasSession
          /\ effect'.calls = <<>>
          /\ effect'.post = Post("warning", FALSE, <<>>, WARN_SELECT)
          /\ inflight' = {}
          /\ ~HasSession']_vars

\* The first delivery ran the delete of a pod up to its clean-up, and the
\* second one was answered with the warning.
C37_Witness ==
  /\ inflight = {} /\ ~HasSession
  /\ visible.action = "delete" /\ visible.resourceType = "pods"
  /\ visible.resourceName = "api-7f9"
  /\ effect.by = "cmd_execute" /\ effect.calls = <<>>
  /\ effect.post = Post("warning", FALSE, <<>>, WARN_SELECT)

\* C38: the resource name an execute event passes to a cluster operation is
\* exactly the full name of a resource the cluster returned in the list of
\* candidates, however long the name is.
C38_PassedNameIsListedName ==
  \A i \in DOMAIN effect.calls :
    (effect.by = "cmd_execute" /\ effect.calls[i].name \notin {NA, ""})
    => effect.calls[i].name \in ListedNames

\* The cancel event has been handled: its handler has removed the record,
\* and has replaced the message once it has left.
CancelHandled == \A h \in inflight : h.kind = "cmd_cancel" => h.phase = "close"
CancelFinished == \A h \in inflight : h.kind # "cmd_cancel"

\* C39: once the cancel event of an anchor has been handled the builder
\* stays closed: a selection handler of the anchor that was in flight when
\* the cancel was handled leaves no session record for the anchor, and does
\* not render the builder again on the message the cancel has replaced.
C39_CancelledStaysClosed ==
  /\ CancelHandled => ~HasSession
  /\ CancelFinished => visible.kind = "closed"

====
